---- MODULE Spec2Model ----
(***************************************************************************)
(* Model of the runtime process bridge of zombieclaw:                      *)
(*   - PiRpcProcess  (piRpcProcess.ts): supervisor of the `pi --mode rpc`  *)
(*     child process, request/response correlation, restart backoff;       *)
(*   - PiPairingGuard (piPairing.ts): pairing code, bearer tokens, lockout.*)
(*                                                                         *)
(* Node runs the program on one event loop.  An event handler (a process   *)
(* event, a stream chunk, a timer) runs to completion, and the promise     *)
(* continuations it queued (microtasks) run before the next event is       *)
(* dispatched.  An action below is one handler or one continuation.        *)
(***************************************************************************)
EXTENDS Integers, Sequences, FiniteSets, TLC

\* ---------------------------------------------------------------- bounds
MaxCalls == 2          \* caller slots (call() / ensureStarted() invocations)
MaxSpawns == 3         \* spawn() invocations under Spec
MaxBackoffSpawns == 32 \* spawn() invocations under BackoffSpec
MaxOps == 2            \* guard operations in flight at once
MaxTicks == 2          \* clock steps
MaxIssued == 2         \* bearer tokens generated
TickMs == 150000       \* one clock step
StartMs == 1000        \* Date.now() when the guard is constructed
MaxReqs == 2           \* HTTP requests to sensitive routes
MaxFlood == 1026       \* clients of the flood under FloodSpec

\* ------------------------------------------------------- program constants
RestartCapMs == 30000  \* scheduleRestart: Math.min(30000, ...)
RestartStepMs == 1000  \* scheduleRestart: 1000 * Math.max(1, restartCount)
PAIRING_CODE_UPPER_BOUND == 1000000
MAX_PAIR_ATTEMPTS == 5
LOCKOUT_SECONDS == 300
MAX_TRACKED_CLIENTS == 1024

VARIABLES
  status,          \* PiRpcProcess.status
  process,         \* PiRpcProcess.process: 0 is null, else the child's handle
  startPromise,    \* PiRpcProcess.startPromise: 0 is null, else the child it waits for
  restartTimer,    \* PiRpcProcess.restartTimer: 0 is null, else the delay (ms) of the pending timeout
  disposed,        \* PiRpcProcess.disposed
  restartCount,    \* PiRpcProcess.restartCount
  requestCounter,  \* PiRpcProcess.requestCounter
  pending,         \* PiRpcProcess.pending: the ids that have an entry
  procs,           \* the children that were spawned and have not ended: handle -> [st, term]
  spawnCount,      \* number of spawn() invocations so far (handles are 1..spawnCount)
  callers,         \* the invocations of call() / ensureStarted(): slot -> position and result
  restartTimers,   \* number of restart timeouts that were set and have neither fired nor been cleared
  lastError,       \* PiRpcProcess.lastError: "none" is null, else which message it holds
  listening,       \* a listener is registered with onNotification()
  emitted,         \* the notifications (their methods) the latest handler delivered to it, in order
  requirePairing,  \* PiPairingGuard.requirePairing
  pairingCode,     \* PiPairingGuard.pairingCode: <<>> is null, else the code's characters
  tokenHashes,     \* PiPairingGuard.tokenHashes
  attempts,        \* PiPairingGuard.attempts, in insertion order: <<[key, count, lockedAtMs]>>
  loadPromise,     \* PiPairingGuard.loadPromise is not null
  everLoaded,      \* a load() has completed since construction
  disk,            \* the store file: "missing", or the strings of its tokenHashes array
  now,             \* Date.now()
  issued,          \* number of bearer tokens generated so far
  shownCode,       \* the pairingCode of the latest status() result
  ops,             \* the invocations of status() / isAuthenticated() / tryPair() in flight
  last,            \* the result of the latest of them to return
  reqs,            \* the bridge's HTTP requests to sensitive routes: slot -> position and registrations
  socks            \* the connections of the websocket chat bridge: slot -> position and flags

rpcVars == <<status, process, startPromise, restartTimer, disposed, restartCount,
             requestCounter, pending, procs, spawnCount,
             callers, restartTimers, lastError, listening, emitted>>

guardVars == <<requirePairing, pairingCode, tokenHashes, attempts, loadPromise, everLoaded,
               disk, now, issued, shownCode, ops, last>>

bridgeVars == <<reqs, socks>>

Slots == 1..MaxCalls

Min(a, b) == IF a < b THEN a ELSE b
Max(a, b) == IF a > b THEN a ELSE b

\* ------------------------------------------------- the child's stdout lines
\* One trimmed, non-empty line of the child's stdout, by what JSON.parse and
\* handleStdoutLine make of it.  A response carries the id "req-<id>".
ResponseLines ==
  [kind : {"response"}, id : 1..(MaxCalls + 1), success : {"true", "false", "absent"},
   data : {"absent", "dA"}]

OtherLines ==
  [kind : {"malformed", "nonobject", "event"}, id : {0}, success : {"absent"},
   data : {"absent"}]

Lines == ResponseLines \cup OtherLines

\* The lines the child can send now.  An id that was never issued matches no
\* entry whatever its value: requestCounter (the next id) stands for all of them.
LinesNow == {line \in Lines : line.id <= requestCounter}

\* ------------------------------------------------------------ caller slots
IdleCaller ==
  [kind |-> "none", pc |-> "idle", join |-> 0, err |-> "none", id |-> 0,
   sentTo |-> 0, timer |-> FALSE, settles |-> 0, outcome |-> "none", data |-> "none"]

\* resolve()/reject() of a caller's promise (or the throw that rejects it): the
\* first one decides the outcome, every one is counted.
Settle(r, outcome, data) ==
  [r EXCEPT !.pc = "done",
            !.settles = Min(2, @ + 1),
            !.outcome = IF r.settles = 0 THEN outcome ELSE @,
            !.data = IF r.settles = 0 THEN data ELSE @]

\* The slot whose pending entry has this id.
HasEntry(cs, pend, c) == cs[c].id # 0 /\ cs[c].id \in pend

\* Promise continuations are queued: no event is dispatched before they ran.
MicrotaskQueued == \E c \in Slots : callers[c].pc \in {"resumeOk", "resumeErr"}

\* ------------------------------------------------------------- notifications
\* EventEmitter.emit() calls the listeners registered, if any.
EmitTo(registered, ns) == IF registered THEN ns ELSE <<>>

\* emitNotification()
EmitNotifications(ns) == EmitTo(listening, ns)

\* The notification setStatus() emits.
StatusNotification(newStatus) == IF newStatus = "errored" THEN "pi/error" ELSE "pi/status"

LineNotificationsSilent(line) == <<>>

\* The notifications handleStdoutLine() emits for a line: one pi/error for a
\* line that is no JSON, one pi/event for an object that is no response, none
\* for a response (whether an entry has its id or not) and for a JSON value
\* that is no object.
LineNotifications(line) ==
  CASE line.kind = "malformed" -> <<"pi/error">>
    [] line.kind = "event" -> <<"pi/event">>
    [] OTHER -> <<>>

\* ---------------------------------------------------------- failAllPending
FailAllPendingFirstOnly(cs, pend, reason) ==
  [c \in Slots |->
     IF HasEntry(cs, pend, c) /\ \A d \in Slots : HasEntry(cs, pend, d) => cs[c].id <= cs[d].id
       THEN Settle([cs[c] EXCEPT !.timer = FALSE], reason, "none")
       ELSE cs[c]]

FailAllPendingLeakTimers(cs, pend, reason) ==
  [c \in Slots |->
     IF HasEntry(cs, pend, c) THEN Settle(cs[c], reason, "none") ELSE cs[c]]

\* The callers after failAllPending(): every entry's timer is cleared and its
\* promise rejected (the map itself is cleared by the action).
FailAllPending(cs, pend, reason) ==
  [c \in Slots |->
     IF HasEntry(cs, pend, c)
       THEN Settle([cs[c] EXCEPT !.timer = FALSE], reason, "none")
       ELSE cs[c]]

\* ---------------------------------------------------------- scheduleRestart
RestartDelayMsUncapped(count) == RestartStepMs * Max(1, count)

\* delayMs of scheduleRestart().
RestartDelayMs(count) == Min(RestartCapMs, RestartStepMs * Max(1, count))

ScheduleRestartNever(timer, isDisposed, count) == timer

\* The restart timer after scheduleRestart(), given the (new) disposed flag.
ScheduleRestart(timer, isDisposed, count) ==
  IF isDisposed THEN timer
  ELSE IF timer # 0 THEN timer
  ELSE RestartDelayMs(count)

ScheduleRestartSetsAlways(timer, isDisposed) == ~isDisposed

\* scheduleRestart() gets past its two returns and calls setTimeout().
ScheduleRestartSets(timer, isDisposed) == ~isDisposed /\ timer = 0

\* ------------------------------------------------------------- startProcess
StartProcessPathNoJoin ==
  IF disposed THEN "disposed"
  ELSE IF process # 0 THEN "running"
  ELSE "spawn"

StartProcessPathNoHandleCheck ==
  IF disposed THEN "disposed"
  ELSE IF startPromise # 0 THEN "join"
  ELSE "spawn"

StartProcessPathIgnoreDisposed ==
  IF process # 0 THEN "running"
  ELSE IF startPromise # 0 THEN "join"
  ELSE "spawn"

\* Which of its four returns startProcess() takes.
StartProcessPath ==
  IF disposed THEN "disposed"
  ELSE IF process # 0 THEN "running"
  ELSE IF startPromise # 0 THEN "join"
  ELSE "spawn"

\* startProcess(): the Promise executor runs synchronously, so the status
\* change and spawn() happen in the caller's step.  lim bounds spawn().
StartProcess(lim) ==
  IF StartProcessPath = "spawn"
    THEN /\ spawnCount < lim
         /\ status' = "starting"
         /\ spawnCount' = spawnCount + 1
         /\ procs' = procs @@ ((spawnCount + 1) :> [st |-> "spawning", term |-> FALSE])
         /\ startPromise' = spawnCount + 1
         /\ emitted' = EmitNotifications(<<StatusNotification("starting")>>)
    ELSE /\ emitted' = <<>>
         /\ UNCHANGED <<status, spawnCount, procs, startPromise>>

\* No child yet.
NoProcs == [p \in {} |-> [st |-> "spawning", term |-> FALSE]]

\* The children without child p (it exited, or its spawn failed).
WithoutProc(p) == [q \in (DOMAIN procs) \ {p} |-> procs[q]]

\* ----------------------------------------------------------------- Init
RpcInit ==
  /\ status = "stopped"
  /\ process = 0
  /\ startPromise = 0
  /\ restartTimer = 0
  /\ disposed = FALSE
  /\ restartCount = 0
  /\ requestCounter = 1
  /\ pending = {}
  /\ procs = NoProcs
  /\ spawnCount = 0
  /\ callers = [c \in Slots |-> IdleCaller]
  /\ restartTimers = 0
  /\ lastError = "none"
  /\ listening = FALSE
  /\ emitted = <<>>

\* ------------------------------------------- ensureStarted() / call() entry
\* A client invokes ensureStarted() (kind "ensure") or call() (kind "call"):
\* both run startProcess() synchronously and then await its promise.
Invoke(c, kind, lim) ==
  /\ callers[c].pc = "idle"
  /\ IF c = 1 THEN TRUE ELSE callers[c - 1].pc # "idle"
  /\ StartProcess(lim)
  /\ callers' = [callers EXCEPT ![c] =
       [@ EXCEPT !.kind = kind,
                 !.pc = CASE StartProcessPath = "disposed" -> "resumeErr"
                          [] StartProcessPath = "running" -> "resumeOk"
                          [] OTHER -> "awaitJoin",
                 !.err = IF StartProcessPath = "disposed" THEN "disposed" ELSE "none",
                 !.join = CASE StartProcessPath = "join" -> startPromise
                            [] StartProcessPath = "spawn" -> spawnCount + 1
                            [] OTHER -> 0]]
  /\ UNCHANGED <<listening, lastError, restartTimers, process, restartTimer, disposed, restartCount, requestCounter, pending>>

EnsureStarted(c, lim) == Invoke(c, "ensure", lim)

Call(c, lim) == Invoke(c, "call", lim)

NextRequestCounterStuck(counter) == counter

\* this.requestCounter++ (the id of the call is the value before).
NextRequestCounter(counter) == counter + 1

\* The body of `new Promise` in call(): the timer, the pending entry and the
\* write to the child's stdin, which may throw.
CallRegisterNoTimer(r, writeThrows) ==
  IF writeThrows
    THEN Settle([r EXCEPT !.id = requestCounter, !.sentTo = process], "write", "none")
    ELSE [r EXCEPT !.id = requestCounter, !.sentTo = process, !.pc = "pending"]

CallRegister(r, writeThrows) ==
  IF writeThrows
    THEN Settle([r EXCEPT !.id = requestCounter, !.sentTo = process], "write", "none")
    ELSE [r EXCEPT !.id = requestCounter, !.sentTo = process, !.pc = "pending",
                   !.timer = TRUE]

\* The continuation after `await this.ensureStarted()`.
Resume(c) ==
  /\ callers[c].pc \in {"resumeOk", "resumeErr"}
  /\ IF callers[c].pc = "resumeErr"
       THEN /\ callers' = [callers EXCEPT ![c] = Settle(@, callers[c].err, "none")]
            /\ UNCHANGED <<requestCounter, pending>>
     ELSE IF callers[c].kind = "ensure"
       THEN /\ callers' = [callers EXCEPT ![c] = Settle(@, "started", "none")]
            /\ UNCHANGED <<requestCounter, pending>>
     ELSE IF process = 0
       THEN /\ callers' = [callers EXCEPT ![c] = Settle(@, "notrunning", "none")]
            /\ UNCHANGED <<requestCounter, pending>>
     ELSE \E writeThrows \in BOOLEAN :
            /\ callers' = [callers EXCEPT ![c] = CallRegister(@, writeThrows)]
            /\ requestCounter' = NextRequestCounter(requestCounter)
            /\ pending' = IF writeThrows THEN pending ELSE pending \cup {requestCounter}
  /\ emitted' = <<>>
  /\ UNCHANGED <<listening, lastError, restartTimers, status, process, startPromise, restartTimer, disposed, restartCount,
                 procs, spawnCount>>

\* The call's setTimeout callback.
TimeoutFires(c) ==
  /\ ~MicrotaskQueued
  /\ callers[c].timer
  /\ pending' = pending \ {callers[c].id}
  /\ callers' = [callers EXCEPT ![c] = Settle([@ EXCEPT !.timer = FALSE], "timeout", "none")]
  /\ emitted' = <<>>
  /\ UNCHANGED <<listening, lastError, restartTimers, status, process, startPromise, restartTimer, disposed, restartCount,
                 requestCounter, procs, spawnCount>>

\* --------------------------------------------------- handleResponseMessage
\* message.data ?? null
DataOrNull(line) == IF line.data = "absent" THEN "null" ELSE line.data

HandleResponseMessageIgnoreData(cs, pend, line) ==
  [c \in Slots |->
     IF cs[c].id = line.id /\ cs[c].id \in pend
       THEN IF line.success = "false"
              THEN Settle([cs[c] EXCEPT !.timer = FALSE], "failed", "none")
              ELSE Settle([cs[c] EXCEPT !.timer = FALSE], "ok", "null")
       ELSE cs[c]]

HandleResponseMessageNoLookup(cs, pend, line) ==
  [c \in Slots |->
     IF cs[c].id = line.id
       THEN IF line.success = "false"
              THEN Settle([cs[c] EXCEPT !.timer = FALSE], "failed", "none")
              ELSE Settle([cs[c] EXCEPT !.timer = FALSE], "ok", DataOrNull(line))
       ELSE cs[c]]

HandleResponseMessageFailAll(cs, pend, line) ==
  [c \in Slots |->
     IF line.id \in pend /\ HasEntry(cs, pend, c)
       THEN IF line.success = "false"
              THEN Settle([cs[c] EXCEPT !.timer = FALSE], "failed", "none")
              ELSE IF cs[c].id = line.id
                THEN Settle([cs[c] EXCEPT !.timer = FALSE], "ok", DataOrNull(line))
                ELSE cs[c]
       ELSE cs[c]]

HandleResponseMessageFifo(cs, pend, line) ==
  [c \in Slots |->
     IF line.id \in pend /\ HasEntry(cs, pend, c)
          /\ \A d \in Slots : HasEntry(cs, pend, d) => cs[c].id <= cs[d].id
       THEN IF line.success = "false"
              THEN Settle([cs[c] EXCEPT !.timer = FALSE], "failed", "none")
              ELSE Settle([cs[c] EXCEPT !.timer = FALSE], "ok", DataOrNull(line))
       ELSE cs[c]]

\* The callers after handleResponseMessage(): the entry with the message's id,
\* if there is one, is settled and its timer cleared.
HandleResponseMessage(cs, pend, line) ==
  [c \in Slots |->
     IF cs[c].id = line.id /\ cs[c].id \in pend
       THEN IF line.success = "false"
              THEN Settle([cs[c] EXCEPT !.timer = FALSE], "failed", "none")
              ELSE Settle([cs[c] EXCEPT !.timer = FALSE], "ok", DataOrNull(line))
       ELSE cs[c]]

\* The stdout `data` handler, one line of the chunk at a time: a chunk holding
\* several lines is as many consecutive steps, nothing runs between them.
\* Only a response changes the supervisor's request state; a malformed line and
\* an event emit a notification, a JSON value that is no object is dropped.
HandleStdoutLine(p, line) ==
  /\ ~MicrotaskQueued
  /\ p \in DOMAIN procs
  /\ procs[p].st = "alive"
  /\ IF line.kind = "response"
       THEN /\ pending' = pending \ {line.id}
            /\ callers' = HandleResponseMessage(callers, pending, line)
       ELSE UNCHANGED <<callers, pending>>
  /\ emitted' = EmitNotifications(LineNotifications(line))
  /\ UNCHANGED <<listening, lastError, restartTimers, status, process, startPromise, restartTimer, disposed, restartCount,
                 requestCounter, procs, spawnCount>>

\* ------------------------------------------------------ the child's events
\* `spawn`: the handle is taken, the start promise resolves and its `finally`
\* clears startPromise; the callers awaiting it are queued to continue.
OnSpawn(p) ==
  /\ ~MicrotaskQueued
  /\ p \in DOMAIN procs
  /\ procs[p].st = "spawning"
  /\ process' = p
  /\ restartCount' = restartCount + 1
  /\ status' = "running"
  /\ emitted' = EmitNotifications(<<StatusNotification("running")>>)
  /\ startPromise' = 0
  /\ procs' = [procs EXCEPT ![p].st = "alive"]
  /\ callers' = [c \in Slots |->
       IF callers[c].pc = "awaitJoin" /\ callers[c].join = p
         THEN [callers[c] EXCEPT !.pc = "resumeOk"]
         ELSE callers[c]]
  /\ UNCHANGED <<listening, lastError, restartTimers, restartTimer, disposed, requestCounter,
                 pending, spawnCount>>

\* `error` of a child that could not be spawned: the start promise rejects
\* (no `exit` follows, and status is not touched).
OnError(p) ==
  /\ ~MicrotaskQueued
  /\ p \in DOMAIN procs
  /\ procs[p].st = "spawning"
  /\ startPromise' = 0
  /\ emitted' = <<>>
  /\ procs' = WithoutProc(p)
  /\ callers' = [c \in Slots |->
       IF callers[c].pc = "awaitJoin" /\ callers[c].join = p
         THEN [callers[c] EXCEPT !.pc = "resumeErr", !.err = "spawnerr"]
         ELSE callers[c]]
  /\ UNCHANGED <<listening, lastError, restartTimers, status, process, restartTimer, disposed, restartCount, requestCounter, pending, spawnCount>>

ExitStatusStale(isDisposed) == IF isDisposed THEN status ELSE "errored"

\* The status the `exit` handler sets.
ExitStatus(isDisposed) == IF isDisposed THEN "stopped" ELSE "errored"

ExitLastErrorAlways(isDisposed, previous) == "exit"

\* lastError after the `exit` handler: the exit message, unless disposed.
ExitLastError(isDisposed, previous) == IF isDisposed THEN previous ELSE "exit"

\* The stderr `data` handler, for a chunk that is not blank: the message is
\* kept as lastError and goes out as a pi/error notification.
OnStderr(p) ==
  /\ ~MicrotaskQueued
  /\ p \in DOMAIN procs
  /\ procs[p].st = "alive"
  /\ lastError' = "stderr"
  /\ emitted' = EmitNotifications(<<"pi/error">>)
  /\ UNCHANGED <<listening, restartTimers, status, process, startPromise, restartTimer, disposed, restartCount,
                 requestCounter, pending, procs, spawnCount, callers>>

\* `exit` of a spawned child.
OnExit(p) ==
  /\ ~MicrotaskQueued
  /\ p \in DOMAIN procs
  /\ procs[p].st = "alive"
  /\ process' = 0
  /\ callers' = FailAllPending(callers, pending, "exit")
  /\ pending' = {}
  /\ status' = ExitStatus(disposed)
  /\ emitted' = EmitNotifications(<<StatusNotification(ExitStatus(disposed))>>)
  /\ restartTimer' = ScheduleRestart(restartTimer, disposed, restartCount)
  /\ restartTimers' = IF ScheduleRestartSets(restartTimer, disposed)
                        THEN restartTimers + 1 ELSE restartTimers
  /\ lastError' = ExitLastError(disposed, lastError)
  /\ procs' = WithoutProc(p)
  /\ UNCHANGED <<listening, startPromise, disposed, restartCount, requestCounter,
                 spawnCount>>

\* The restart timer's callback: `void this.ensureStarted()`.
RestartTimerFires(lim) ==
  /\ ~MicrotaskQueued
  /\ restartTimer # 0
  /\ restartTimer' = 0
  /\ restartTimers' = restartTimers - 1
  /\ StartProcess(lim)
  /\ UNCHANGED <<listening, lastError, process, disposed, restartCount, requestCounter, pending, callers>>

\* ------------------------------------------------------------------ dispose
\* dispose(), registered telling whether a listener is registered when it
\* runs: SIGTERM goes to the child this.process holds, if any.
RuntimeDispose(registered) ==
  /\ disposed' = TRUE
  /\ restartTimer' = 0
  /\ restartTimers' = IF restartTimer # 0 THEN restartTimers - 1 ELSE restartTimers
  /\ callers' = FailAllPending(callers, pending, "disposed")
  /\ pending' = {}
  /\ process' = 0
  /\ status' = "stopped"
  /\ emitted' = EmitTo(registered, <<StatusNotification("stopped")>>)
  /\ procs' = IF process # 0 /\ process \in DOMAIN procs
                THEN [procs EXCEPT ![process].term = TRUE]
                ELSE procs
  /\ UNCHANGED <<lastError, startPromise, restartCount, requestCounter, spawnCount>>

\* dispose() called by itself: the listeners are as they were.
Dispose == RuntimeDispose(listening) /\ UNCHANGED listening

\* ================================================================ pairing
OpSlots == 1..MaxOps

\* String(n): the decimal digits of n, most significant first.
RECURSIVE DecimalString(_)
DecimalString(n) ==
  LET d == <<"0", "1", "2", "3", "4", "5", "6", "7", "8", "9">>[(n % 10) + 1]
  IN IF n < 10 THEN <<d>> ELSE Append(DecimalString(n \div 10), d)

\* s.padStart(len, ch)
RECURSIVE PadStart(_, _, _)
PadStart(s, len, ch) == IF Len(s) >= len THEN s ELSE PadStart(<<ch>> \o s, len, ch)

\* s.trim(), the blank being the one whitespace character of the model.
RECURSIVE Trim(_)
Trim(s) ==
  IF s = <<>> THEN s
  ELSE IF Head(s) = " " THEN Trim(Tail(s))
  ELSE IF s[Len(s)] = " " THEN Trim(SubSeq(s, 1, Len(s) - 1))
  ELSE s

\* generatePairingCode(), n being Math.floor(Math.random() * PAIRING_CODE_UPPER_BOUND).
GeneratePairingCode(n) == PadStart(DecimalString(n), 6, "0")

\* The values of Math.floor(Math.random() * PAIRING_CODE_UPPER_BOUND) the model draws.
CodeNumbers == {n \in {7, 123456} : n < PAIRING_CODE_UPPER_BOUND}

\* A string that is a token or a hash: enc "raw" is the token number tok as
\* generated, "h" its sha256 in lower-case hex, "H" the same in upper case,
\* "hh" and "hH" the sha256 of those two strings, "blank" a string of blanks.
Str(enc, tok) == [enc |-> enc, tok |-> tok]

\* generateBearerToken(): the k-th draw of 32 random bytes, all draws distinct.
GenerateBearerToken(k) == Str("raw", k)

\* hashToken(): sha256 as lower-case hex, taken collision free.
HashToken(token) ==
  Str(CASE token.enc = "raw" -> "h"
        [] token.enc = "h" -> "hh"
        [] OTHER -> "hH", token.tok)

\* looksLikeHash(): 64 hex characters of either case.
LooksLikeHash(value) == value.enc \in {"h", "H", "hh", "hH"}

\* value.toLowerCase() of a hex string.
ToLowerCase(value) == IF value.enc = "H" THEN Str("h", value.tok) ELSE value

\* A token paired by an earlier run of the bridge.
LegacyToken == Str("raw", 0)

\* The store file at construction: exists is false when there is no file, else
\* entries are the strings of its tokenHashes array (none, one hash, one hash
\* in upper case, one legacy raw token).
InitialDisks ==
  {[exists |-> FALSE, entries |-> {}]}
    \cup {[exists |-> TRUE, entries |-> e] :
            e \in {{}, {HashToken(LegacyToken)}, {Str("H", 0)}, {LegacyToken}}}

\* The hashes load() adds for the file's contents.
LoadedHashes(file) ==
  IF ~file.exists THEN {}
  ELSE {IF LooksLikeHash(e) THEN ToLowerCase(e) ELSE HashToken(e) : e \in file.entries}

\* normalizeClientKey(): "" stands for every key that is blank after trim().
NormalizeClientKey(clientKey) == IF clientKey = "" THEN "unknown" ELSE clientKey

ClientKeys == {"c1", ""}

\* The one client of PairSpec.
PairClients == {"c1"}

\* The codes a client may type: the codes the guard can generate, one of them
\* typed with blanks around it, and one that is no code.
CodeInputs ==
  {GeneratePairingCode(123456), <<" ">> \o GeneratePairingCode(7) \o <<" ">>, <<"x">>}

\* The tokens a client may present.
TokenInputs ==
  {GenerateBearerToken(k) : k \in 1..MaxIssued}
    \cup {LegacyToken, Str("blank", 0), Str("h", 0)}

\* ----------------------------------------------------------------- attempts
AttemptIndex(att, key) ==
  IF \E i \in 1..Len(att) : att[i].key = key
    THEN CHOOSE i \in 1..Len(att) : att[i].key = key
    ELSE 0

ExpiredNever(r, nowMs) == FALSE

\* An entry whose lockout has run out (lockedAtMs 0 is null).
Expired(r, nowMs) == r.lockedAtMs # 0 /\ nowMs - r.lockedAtMs >= LOCKOUT_SECONDS * 1000

\* clearExpiredAttempts()
ClearExpiredAttempts(att, nowMs) ==
  LET kept == SelectSeq(att, LAMBDA r : ~Expired(r, nowMs))
  IN IF Len(kept) <= MAX_TRACKED_CLIENTS THEN kept
     ELSE SubSeq(kept, Len(kept) - MAX_TRACKED_CLIENTS + 1, Len(kept))

GetLockoutRemainingSecondsZero(att, key, nowMs) == 0

\* getLockoutRemainingSeconds()
GetLockoutRemainingSeconds(att, key, nowMs) ==
  LET i == AttemptIndex(att, key)
  IN IF i = 0 THEN 0
     ELSE IF att[i].lockedAtMs = 0 THEN 0
     ELSE LET remainingMs == LOCKOUT_SECONDS * 1000 - (nowMs - att[i].lockedAtMs)
          IN IF remainingMs > 0 THEN (remainingMs + 999) \div 1000 ELSE 0

\* markFailedAttempt(): Map.set() keeps the place of a key that is present.
MarkFailedAttemptNoLock(att, key, nowMs) ==
  LET cleared == ClearExpiredAttempts(att, nowMs)
      i == AttemptIndex(cleared, key)
      old == IF i = 0 THEN [key |-> key, count |-> 0, lockedAtMs |-> 0] ELSE cleared[i]
      reset == IF Expired(old, nowMs) THEN [old EXCEPT !.count = 0, !.lockedAtMs = 0] ELSE old
      counted == [reset EXCEPT !.count = Min(MAX_PAIR_ATTEMPTS, @ + 1)]
  IN IF i = 0 THEN Append(cleared, counted) ELSE [cleared EXCEPT ![i] = counted]

MarkFailedAttempt(att, key, nowMs) ==
  LET cleared == ClearExpiredAttempts(att, nowMs)
      i == AttemptIndex(cleared, key)
      old == IF i = 0 THEN [key |-> key, count |-> 0, lockedAtMs |-> 0] ELSE cleared[i]
      reset == IF Expired(old, nowMs) THEN [old EXCEPT !.count = 0, !.lockedAtMs = 0] ELSE old
      counted == [reset EXCEPT !.count = @ + 1]
      record == IF counted.count >= MAX_PAIR_ATTEMPTS
                  THEN [counted EXCEPT !.lockedAtMs = nowMs]
                  ELSE counted
  IN IF i = 0 THEN Append(cleared, record) ELSE [cleared EXCEPT ![i] = record]

\* The failure count attempts holds for key (0 when it holds none).
AttemptCount(att, key) ==
  IF AttemptIndex(att, key) = 0 THEN 0 ELSE att[AttemptIndex(att, key)].count

\* attempts.delete(key)
DeleteAttempt(att, key) == SelectSeq(att, LAMBDA r : r.key # key)

\* -------------------------------------------------------------------- ops
\* An operation in flight.  Its arguments are not read before its body runs,
\* so the model draws them there; code is kept from the invocation only when
\* the caller is about to type the code the latest status() showed (flow).
IdleOp ==
  [kind |-> "none", pc |-> "idle", code |-> <<>>, flow |-> FALSE,
   snapshot |-> {}, rtoken |-> Str("blank", 0), key |-> "none"]

\* What an operation returned (the latest one to return).  For a tryPair()
\* that failed, key is the client identity it was called with, was the failure
\* count that identity had, and given tells whether the code was the pending one.
NoResult ==
  [kind |-> "none", res |-> "none", flow |-> FALSE, rcode |-> <<>>, rpaired |-> FALSE,
   rtoken |-> Str("blank", 0), retry |-> 0, was |-> 0, given |-> "none", key |-> "none"]

Result(kind, res) == [NoResult EXCEPT !.kind = kind, !.res = res]

\* A continuation of a guard operation is queued.
GuardMicrotaskQueued == \E o \in OpSlots : ops[o].pc = "body"

GuardInit ==
  /\ requirePairing \in BOOLEAN
  /\ pairingCode = <<>>
  /\ tokenHashes = {}
  /\ attempts = <<>>
  /\ loadPromise = FALSE
  /\ everLoaded = FALSE
  /\ disk \in InitialDisks
  /\ now = StartMs
  /\ issued = 0
  /\ shownCode = <<>>
  /\ ops = [o \in OpSlots |-> IdleOp]
  /\ last = NoResult

\* The guard of the bridge as constructed, before any request.
GuardIdle ==
  /\ requirePairing = TRUE
  /\ pairingCode = <<>>
  /\ tokenHashes = {}
  /\ attempts = <<>>
  /\ loadPromise = FALSE
  /\ everLoaded = FALSE
  /\ disk = [exists |-> FALSE, entries |-> {}]
  /\ now = StartMs
  /\ issued = 0
  /\ shownCode = <<>>
  /\ ops = [o \in OpSlots |-> IdleOp]
  /\ last = NoResult

\* ---------------------------------------------------------------- load()
\* The entry of status() / isAuthenticated() / tryPair(): `await this.load()`.
\* load() awaits the promise in flight, or starts reading the store file.
\* Another invocation ends the flow of an operation in flight.
GuardInvoke(o, kind) ==
  /\ ops[o].pc = "idle"
  /\ \A q \in OpSlots : q < o => ops[q].pc # "idle"
  /\ LET flow == /\ kind = "tryPair"
                 /\ shownCode # <<>>
                 /\ tokenHashes = {}
                 /\ attempts = <<>>
                 /\ \A r \in OpSlots : ops[r].pc = "idle"
     IN ops' = [q \in OpSlots |->
          IF q = o
            THEN [IdleOp EXCEPT !.kind = kind,
                                !.pc = IF loadPromise THEN "loadJoin" ELSE "loadIO",
                                !.flow = flow,
                                !.code = IF flow THEN shownCode ELSE <<>>]
            ELSE [ops[q] EXCEPT !.flow = FALSE, !.code = <<>>]]
  /\ loadPromise' = TRUE
  /\ UNCHANGED <<requirePairing, pairingCode, tokenHashes, attempts, everLoaded, disk, now,
                 issued, shownCode, last>>

Status(o) == GuardInvoke(o, "status")

IsAuthenticated(o) == GuardInvoke(o, "isAuthenticated")

TryPair(o) == GuardInvoke(o, "tryPair")

ResetPairingCodeForTestingOnly(o) == GuardInvoke(o, "reset")

\* The pairing code after the loader ran, n being the random draw.
LoadedCode(hashes, n) ==
  IF requirePairing /\ hashes = {} THEN GeneratePairingCode(n) ELSE pairingCode

\* readFile() completes and the loader runs to its end: the file's hashes are
\* added (a file that is missing, unreadable or no JSON object adds none), a
\* code is generated when pairing is required and no hash is known, and the
\* `finally` of load() clears loadPromise.  Every operation that awaited the
\* load is queued to continue.
LoadDone ==
  /\ ~GuardMicrotaskQueued
  /\ loadPromise
  /\ \E readFails \in BOOLEAN : \E n \in CodeNumbers :
       LET hashes == tokenHashes \cup (IF readFails THEN {} ELSE LoadedHashes(disk))
       IN /\ tokenHashes' = hashes
          /\ pairingCode' = LoadedCode(hashes, n)
  /\ loadPromise' = FALSE
  /\ everLoaded' = TRUE
  /\ ops' = [o \in OpSlots |->
       IF ops[o].pc \in {"loadIO", "loadJoin"} THEN [ops[o] EXCEPT !.pc = "body"] ELSE ops[o]]
  /\ UNCHANGED <<requirePairing, attempts, disk, now, issued, shownCode, last>>

\* ------------------------------------------------ the operations' bodies
\* status() after the load.
StatusBody(o) ==
  /\ ops[o].pc = "body"
  /\ ops[o].kind = "status"
  /\ LET code == IF requirePairing THEN pairingCode ELSE <<>>
     IN /\ last' = [Result("status", "status") EXCEPT !.rpaired = tokenHashes # {},
                                                      !.rcode = code]
        /\ shownCode' = code
  /\ ops' = [ops EXCEPT ![o] = IdleOp]
  /\ UNCHANGED <<requirePairing, pairingCode, tokenHashes, attempts, loadPromise, everLoaded,
                 disk, now, issued>>

\* The value of isAuthenticated() after the load.
Authenticated(token) ==
  IF ~requirePairing THEN TRUE
  ELSE IF token.enc = "blank" THEN FALSE
  ELSE HashToken(token) \in tokenHashes

IsAuthenticatedBody(o, token) ==
  /\ ops[o].pc = "body"
  /\ ops[o].kind = "isAuthenticated"
  /\ last' = [Result("isAuthenticated", IF Authenticated(token) THEN "true" ELSE "false")
                EXCEPT !.rtoken = token]
  /\ ops' = [ops EXCEPT ![o] = IdleOp]
  /\ UNCHANGED <<requirePairing, pairingCode, tokenHashes, attempts, loadPromise, everLoaded,
                 disk, now, issued, shownCode>>

PairedCodeKept == pairingCode

\* this.pairingCode after a tryPair() that matched: null.
PairedCode == <<>>

\* tryPair(inputCode, clientKey) after the load, up to its return or to
\* `await this.persist()`.
TryPairBody(o, inputCode, clientKey) ==
  /\ ops[o].pc = "body"
  /\ ops[o].kind = "tryPair"
  /\ ops[o].flow => Trim(inputCode) = ops[o].code
  /\ LET key == NormalizeClientKey(clientKey)
         remainingLockout == GetLockoutRemainingSeconds(attempts, key, now)
         marked == MarkFailedAttempt(attempts, key, now)
         retryAfterSeconds == GetLockoutRemainingSeconds(marked, key, now)
         token == GenerateBearerToken(issued + 1)
         fail(reason, retry) ==
           /\ last' = [Result("tryPair", reason) EXCEPT
                         !.retry = retry,
                         !.flow = ops[o].flow,
                         !.key = key,
                         !.was = AttemptCount(attempts, key),
                         !.given = IF pairingCode = <<>> THEN "nocode"
                                   ELSE IF Trim(inputCode) = pairingCode THEN "match"
                                   ELSE "wrong"]
           /\ ops' = [ops EXCEPT ![o] = IdleOp]
     IN IF ~requirePairing
          THEN /\ fail("pairing_disabled", 0)
               /\ UNCHANGED <<attempts, tokenHashes, pairingCode, issued>>
        ELSE IF remainingLockout > 0
          THEN /\ fail("locked", remainingLockout)
               /\ UNCHANGED <<attempts, tokenHashes, pairingCode, issued>>
        ELSE IF pairingCode = <<>>
          THEN /\ fail("already_paired", 0)
               /\ UNCHANGED <<attempts, tokenHashes, pairingCode, issued>>
        ELSE IF Trim(inputCode) # pairingCode
          THEN /\ attempts' = marked
               /\ IF retryAfterSeconds > 0
                    THEN fail("locked", retryAfterSeconds)
                    ELSE fail("invalid_code", 0)
               /\ UNCHANGED <<tokenHashes, pairingCode, issued>>
        ELSE /\ issued < MaxIssued
             /\ attempts' = DeleteAttempt(attempts, key)
             /\ issued' = issued + 1
             /\ tokenHashes' = tokenHashes \cup {HashToken(token)}
             /\ pairingCode' = PairedCode
             /\ ops' = [ops EXCEPT ![o] =
                  [@ EXCEPT !.pc = "persist", !.rtoken = token, !.key = key,
                            !.snapshot = tokenHashes \cup {HashToken(token)}]]
             /\ UNCHANGED last
  /\ UNCHANGED <<requirePairing, loadPromise, everLoaded, disk, now, shownCode>>

\* persist() completes: the file holds the hashes taken when persist() was
\* called and tryPair() returns the token, or mkdir/writeFile failed and
\* tryPair() rejects.
PersistDone(o) ==
  /\ ~GuardMicrotaskQueued
  /\ ops[o].pc = "persist"
  /\ \E writeFails \in BOOLEAN :
       IF writeFails
         THEN /\ last' = [Result("tryPair", "error") EXCEPT !.flow = ops[o].flow]
              /\ UNCHANGED disk
         ELSE /\ last' = [Result("tryPair", "ok") EXCEPT !.flow = ops[o].flow,
                                                         !.rtoken = ops[o].rtoken]
              /\ disk' = [exists |-> TRUE, entries |-> ops[o].snapshot]
  /\ ops' = [ops EXCEPT ![o] = IdleOp]
  /\ UNCHANGED <<requirePairing, pairingCode, tokenHashes, attempts, loadPromise, everLoaded,
                 now, issued, shownCode>>

\* resetPairingCodeForTestingOnly() after the load: a fresh code unless a
\* token is known (requirePairing is not looked at).
ResetBody(o) ==
  /\ ops[o].pc = "body"
  /\ ops[o].kind = "reset"
  /\ \E n \in CodeNumbers :
       pairingCode' = IF tokenHashes = {} THEN GeneratePairingCode(n) ELSE pairingCode
  /\ last' = Result("reset", "void")
  /\ ops' = [ops EXCEPT ![o] = IdleOp]
  /\ UNCHANGED <<requirePairing, tokenHashes, attempts, loadPromise, everLoaded, disk, now,
                 issued, shownCode>>

\* Time passes.
Tick ==
  /\ now < StartMs + MaxTicks * TickMs
  /\ now' = now + TickMs
  /\ UNCHANGED <<requirePairing, pairingCode, tokenHashes, attempts, loadPromise, everLoaded,
                 disk, issued, shownCode, ops, last>>

\* ================================================================= bridge
ReqSlots == 1..MaxReqs

\* A request to a sensitive route.  route is "command" (a route that ends in
\* callPiCommand) or "events" (the event stream); token is what
\* extractBearerToken() found, a blank string when there is none or it was not read; op is the
\* guard operation the request awaits and caller its call()/ensureStarted();
\* code is the HTTP status of a failure.  For a stream: registered is
\* membership in `connections`, unsubscribe and close are its entries in
\* eventUnsubscribeByConnection and closeByConnection, listener its listener
\* on the supervisor, keepAlive and statusTicker its intervals (their callbacks
\* write to the response and change nothing else), ended res.end(), and gone
\* tells that the request has emitted `close` (the response is destroyed).
IdleReq ==
  [pc |-> "idle", route |-> "none", token |-> Str("blank", 0), op |-> 0, caller |-> 0,
   code |-> 0, registered |-> FALSE, unsubscribe |-> FALSE, close |-> FALSE,
   listener |-> FALSE, keepAlive |-> FALSE, statusTicker |-> FALSE, ended |-> FALSE,
   gone |-> FALSE]

\* A connection of the websocket chat bridge.  token is the `token` query
\* parameter, trimmed; op is the guard operation its check awaits;
\* authenticated is the handler's flag; bounced and forwarded tell that a
\* message was answered "Authentication pending" and that one was passed to
\* call(); refused that the check failed and the socket was closed (4001).
IdleSock ==
  [pc |-> "idle", token |-> Str("blank", 0), op |-> 0, authenticated |-> FALSE,
   bounced |-> FALSE, forwarded |-> FALSE, refused |-> FALSE]

BridgeIdle ==
  /\ reqs = [r \in ReqSlots |-> IdleReq]
  /\ socks = [w \in ReqSlots |-> IdleSock]

\* The tokens a request may carry: one that a store file may hold the hash of,
\* none, and that hash itself.
RequestTokens == {LegacyToken, Str("blank", 0), Str("h", 0)}

Routes == {"command", "events"}

\* The variables of the supervisor that a subscription leaves alone.
rpcVarsButListeners ==
  <<status, process, startPromise, restartTimer, disposed, restartCount, requestCounter,
    pending, procs, spawnCount, callers, restartTimers, lastError>>

\* The positions of a request whose handler has run to its last await.
SetUpOver == {"rejected", "calling", "streaming", "closed", "failed"}

\* A request to a sensitive route arrives: requireAuth() calls pairing.status().
\* Requests arrive one at a time, each when the handlers before it are set up.
Request(r, route) ==
  /\ reqs[r].pc = "idle"
  /\ \A q \in ReqSlots : q < r => reqs[q].pc \in SetUpOver
  /\ \E o \in OpSlots :
       /\ Status(o)
       /\ reqs' = [reqs EXCEPT ![r] =
            [IdleReq EXCEPT !.pc = "authStatus", !.route = route, !.op = o]]
  /\ UNCHANGED rpcVars
  /\ UNCHANGED socks

\* requireAuth() after `await pairing.status()`: it returns ok when pairing is
\* not required, else it reads the request's token with extractBearerToken()
\* and calls pairing.isAuthenticated(token).
AuthStatus(r, token) ==
  /\ reqs[r].pc = "authStatus"
  /\ requirePairing \/ token = IdleReq.token
  /\ LET o == reqs[r].op
         code == IF requirePairing THEN pairingCode ELSE <<>>
     IN /\ ops[o].pc = "body"
        /\ ops[o].kind = "status"
        /\ last' = [Result("status", "status") EXCEPT !.rpaired = tokenHashes # {},
                                                      !.rcode = code]
        /\ shownCode' = code
        /\ IF ~requirePairing
             THEN /\ ops' = [ops EXCEPT ![o] = IdleOp]
                  /\ UNCHANGED loadPromise
                  /\ reqs' = [reqs EXCEPT ![r].pc = "route", ![r].op = 0]
             ELSE /\ ops' = [q \in OpSlots |->
                       IF q = o
                         THEN [IdleOp EXCEPT !.kind = "isAuthenticated",
                                             !.pc = IF loadPromise THEN "loadJoin" ELSE "loadIO"]
                         ELSE [ops[q] EXCEPT !.flow = FALSE, !.code = <<>>]]
                  /\ loadPromise' = TRUE
                  /\ reqs' = [reqs EXCEPT ![r].pc = "authToken", ![r].token = token]
  /\ UNCHANGED <<requirePairing, pairingCode, tokenHashes, attempts, everLoaded, disk, now,
                 issued>>
  /\ UNCHANGED rpcVars
  /\ UNCHANGED socks

AuthorizedAlways(valid) == TRUE

\* auth.ok of requireAuth(), given the value of isAuthenticated().
Authorized(valid) == valid

\* requireAuth() after `await pairing.isAuthenticated(token)`: ok, or the 401
\* failure that the middleware sends before it returns.
AuthToken(r) ==
  /\ reqs[r].pc = "authToken"
  /\ IsAuthenticatedBody(reqs[r].op, reqs[r].token)
  /\ reqs' = [reqs EXCEPT ![r] =
       IF Authorized(Authenticated(reqs[r].token))
         THEN [@ EXCEPT !.pc = "route", !.op = 0]
         ELSE [@ EXCEPT !.pc = "rejected", !.op = 0, !.code = 401, !.ended = TRUE]]
  /\ UNCHANGED rpcVars
  /\ UNCHANGED socks

\* The handler of a command route after requireAuth() returned ok:
\* callPiCommand() calls runtime.call().
RouteCommand(r, lim) ==
  /\ reqs[r].pc = "route"
  /\ reqs[r].route = "command"
  /\ \E c \in Slots :
       /\ Call(c, lim)
       /\ reqs' = [reqs EXCEPT ![r].pc = "calling", ![r].caller = c]
  /\ UNCHANGED guardVars
  /\ UNCHANGED socks

\* The handler of the event stream after requireAuth() returned ok: the
\* response joins `connections` and runtime.ensureStarted() is awaited.
RouteEvents(r, lim) ==
  /\ reqs[r].pc = "route"
  /\ reqs[r].route = "events"
  /\ \E c \in Slots :
       /\ EnsureStarted(c, lim)
       /\ reqs' = [reqs EXCEPT ![r].pc = "starting", ![r].caller = c, ![r].registered = TRUE]
  /\ UNCHANGED guardVars
  /\ UNCHANGED socks

\* The stream's handler after `await runtime.ensureStarted()`: sendStatus()
\* begins to read the status, or returns at once when the response is ended
\* or destroyed; or the catch writes the error and ends the response.
StreamStarted(r) ==
  /\ reqs[r].pc = "starting"
  /\ callers[reqs[r].caller].pc = "done"
  /\ reqs' = [reqs EXCEPT ![r] =
       IF callers[reqs[r].caller].outcome = "started"
         THEN [@ EXCEPT !.pc = IF reqs[r].ended \/ reqs[r].gone THEN "statusWait"
                               ELSE "probe"]
         ELSE [@ EXCEPT !.pc = "failed", !.ended = TRUE]]
  /\ UNCHANGED <<rpcVars, guardVars>>
  /\ UNCHANGED socks

\* readPiCompatStatus() after its first probes: pairing.status() is called.
StreamProbe(r) ==
  /\ reqs[r].pc = "probe"
  /\ \E o \in OpSlots :
       /\ Status(o)
       /\ reqs' = [reqs EXCEPT ![r].pc = "statusWait", ![r].op = o]
  /\ UNCHANGED rpcVars
  /\ UNCHANGED socks

ListenerAfterCloseNone(r, d) == FALSE

\* Whether stream d has its listener on the supervisor after the listener of
\* stream r was taken off: the function onNotification() returned removes the
\* one listener it was made for.
ListenerAfterClose(r, d) == IF d = r THEN FALSE ELSE reqs[d].listener

\* The stream's handler after `await sendStatus()`: the status is written
\* (op is 0 when sendStatus() returned at once), the listener subscribed and
\* kept in eventUnsubscribeByConnection, both intervals started, and close
\* kept in closeByConnection and set as the handler of the request's `close`
\* and `aborted`.
StreamStatus(r) ==
  /\ reqs[r].pc = "statusWait"
  /\ IF reqs[r].op # 0 THEN StatusBody(reqs[r].op) ELSE UNCHANGED guardVars
  /\ reqs' = [reqs EXCEPT ![r] =
       [@ EXCEPT !.pc = "streaming", !.op = 0, !.listener = TRUE, !.unsubscribe = TRUE,
                 !.keepAlive = TRUE, !.statusTicker = TRUE, !.close = TRUE]]
  /\ listening' = TRUE
  /\ emitted' = <<>>
  /\ UNCHANGED rpcVarsButListeners
  /\ UNCHANGED socks

\* What closeStreamConnection() leaves of stream r.
Closed(q, r) ==
  [q EXCEPT !.pc = "closed", !.keepAlive = FALSE, !.statusTicker = FALSE,
            !.listener = IF q.unsubscribe THEN ListenerAfterClose(r, r) ELSE q.listener,
            !.unsubscribe = FALSE, !.close = FALSE, !.registered = FALSE, !.ended = TRUE]

\* `close` (or `aborted`) of a stream's request, with `close` set as its
\* handler: closeStreamConnection().
StreamClose(r) ==
  /\ reqs[r].pc = "streaming"
  /\ reqs[r].close
  /\ ~reqs[r].gone
  /\ reqs' = [d \in ReqSlots |->
       IF d = r THEN [Closed(reqs[r], r) EXCEPT !.gone = TRUE]
       ELSE [reqs[d] EXCEPT !.listener = IF reqs[r].unsubscribe
                                           THEN ListenerAfterClose(r, d) ELSE @]]
  /\ listening' = \E d \in ReqSlots :
                    IF reqs[r].unsubscribe THEN ListenerAfterClose(r, d) ELSE reqs[d].listener
  /\ emitted' = <<>>
  /\ UNCHANGED <<rpcVarsButListeners, guardVars>>
  /\ UNCHANGED socks

\* The positions of a stream's handler before it has set the handler of the
\* request's `close`, and the one where it returned without setting it.
BeforeCloseHandler ==
  {"authStatus", "authToken", "route", "starting", "probe", "statusWait", "failed"}

\* `close` of a stream's request that has no handler for it: the response is
\* destroyed and nothing is called.
SetUpClose(r) ==
  /\ reqs[r].route = "events"
  /\ reqs[r].pc \in BeforeCloseHandler
  /\ ~reqs[r].gone
  /\ reqs' = [reqs EXCEPT ![r].gone = TRUE]
  /\ UNCHANGED <<rpcVars, guardVars>>
  /\ UNCHANGED socks

\* middleware.dispose(): every close in closeByConnection is called, the three
\* registries are cleared and the supervisor is disposed.
BridgeDispose ==
  /\ reqs' = [d \in ReqSlots |->
       LET q == IF reqs[d].close THEN Closed(reqs[d], d) ELSE reqs[d]
       IN [q EXCEPT !.registered = FALSE, !.unsubscribe = FALSE, !.close = FALSE]]
  /\ listening' = \E d \in ReqSlots : reqs'[d].listener
  /\ RuntimeDispose(listening')
  /\ UNCHANGED guardVars
  /\ UNCHANGED socks

\* ------------------------------------------------------ websocket chat
\* A client connects to /ws/chat: the handler reads the token and starts its
\* check with pairing.status(); the `message` handler is set.  Clients
\* connect one at a time, each when the checks of those before it are over,
\* and send a token only to a guard that requires pairing.
WsConnect(w, token) ==
  /\ socks[w].pc = "idle"
  /\ \A v \in ReqSlots : v < w => socks[v].pc \in {"open", "refused"}
  /\ requirePairing \/ token = IdleSock.token
  /\ \E o \in OpSlots :
       /\ Status(o)
       /\ socks' = [socks EXCEPT ![w] =
            [IdleSock EXCEPT !.pc = "authStatus", !.token = token, !.op = o]]
  /\ UNCHANGED <<rpcVars, reqs>>

\* The check after `await pairing.status()`: the connection is authenticated
\* when pairing is not required, else pairing.isAuthenticated(token) is called.
WsAuthStatus(w) ==
  /\ socks[w].pc = "authStatus"
  /\ LET o == socks[w].op
         code == IF requirePairing THEN pairingCode ELSE <<>>
     IN /\ ops[o].pc = "body"
        /\ ops[o].kind = "status"
        /\ last' = [Result("status", "status") EXCEPT !.rpaired = tokenHashes # {},
                                                      !.rcode = code]
        /\ shownCode' = code
        /\ IF ~requirePairing
             THEN /\ ops' = [ops EXCEPT ![o] = IdleOp]
                  /\ UNCHANGED loadPromise
                  /\ socks' = [socks EXCEPT ![w].pc = "open", ![w].op = 0,
                                            ![w].authenticated = TRUE]
             ELSE /\ ops' = [q \in OpSlots |->
                       IF q = o
                         THEN [IdleOp EXCEPT !.kind = "isAuthenticated",
                                             !.pc = IF loadPromise THEN "loadJoin" ELSE "loadIO"]
                         ELSE [ops[q] EXCEPT !.flow = FALSE, !.code = <<>>]]
                  /\ loadPromise' = TRUE
                  /\ socks' = [socks EXCEPT ![w].pc = "authToken"]
  /\ UNCHANGED <<requirePairing, pairingCode, tokenHashes, attempts, everLoaded, disk, now,
                 issued>>
  /\ UNCHANGED <<rpcVars, reqs>>

\* The check after `await pairing.isAuthenticated(token)`: the connection is
\* authenticated, or the error is sent and the socket closed with 4001.
WsAuthToken(w) ==
  /\ socks[w].pc = "authToken"
  /\ IsAuthenticatedBody(socks[w].op, socks[w].token)
  /\ socks' = [socks EXCEPT ![w] =
       IF Authenticated(socks[w].token)
         THEN [@ EXCEPT !.pc = "open", !.op = 0, !.authenticated = TRUE]
         ELSE [@ EXCEPT !.pc = "refused", !.op = 0, !.refused = TRUE]]
  /\ UNCHANGED <<rpcVars, reqs>>

ForwardsAlways(sock) == TRUE

\* Whether the `message` handler passes a message on: its `authenticated` flag.
Forwards(sock) == sock.authenticated

\* The `message` handler, for a payload with content: "Authentication
\* pending" is sent back, or runtime.call('prompt', ...) is called.  (A
\* payload that is invalid or blank is answered or dropped before that.)
WsMessage(w, lim) ==
  /\ socks[w].pc # "idle"
  /\ IF Forwards(socks[w])
       THEN /\ \E c \in Slots : Call(c, lim)
            /\ socks' = [socks EXCEPT ![w].forwarded = TRUE]
       ELSE /\ socks' = [socks EXCEPT ![w].bounced = TRUE]
            /\ UNCHANGED rpcVars
  /\ UNCHANGED <<guardVars, reqs>>

\* ------------------------------------------------------------ specification
vars == <<rpcVars, guardVars, bridgeVars>>

Init == RpcInit /\ GuardIdle /\ BridgeIdle

Next ==
  \/ (\E c \in Slots : EnsureStarted(c, MaxSpawns)) /\ UNCHANGED <<guardVars, bridgeVars>>
  \/ (\E c \in Slots : Call(c, MaxSpawns)) /\ UNCHANGED <<guardVars, bridgeVars>>
  \/ (\E c \in Slots : Resume(c)) /\ UNCHANGED <<guardVars, bridgeVars>>
  \/ (\E c \in Slots : TimeoutFires(c)) /\ UNCHANGED <<guardVars, bridgeVars>>
  \/ (\E p \in DOMAIN procs : OnSpawn(p)) /\ UNCHANGED <<guardVars, bridgeVars>>
  \/ (\E p \in DOMAIN procs : OnError(p)) /\ UNCHANGED <<guardVars, bridgeVars>>
  \/ (\E p \in DOMAIN procs : OnExit(p)) /\ UNCHANGED <<guardVars, bridgeVars>>
  \/ (\E p \in DOMAIN procs : \E line \in LinesNow : HandleStdoutLine(p, line)) /\ UNCHANGED <<guardVars, bridgeVars>>
  \/ (RestartTimerFires(MaxSpawns)) /\ UNCHANGED <<guardVars, bridgeVars>>
  \/ (Dispose) /\ UNCHANGED <<guardVars, bridgeVars>>

Spec == Init /\ [][Next]_vars

\* The supervisor's life cycle alone, long enough for the backoff to reach its cap.
BackoffNext ==
  \/ (\E c \in Slots : EnsureStarted(c, MaxBackoffSpawns)) /\ UNCHANGED <<guardVars, bridgeVars>>
  \/ (\E c \in Slots : Resume(c)) /\ UNCHANGED <<guardVars, bridgeVars>>
  \/ (\E p \in DOMAIN procs : OnSpawn(p)) /\ UNCHANGED <<guardVars, bridgeVars>>
  \/ (\E p \in DOMAIN procs : OnError(p)) /\ UNCHANGED <<guardVars, bridgeVars>>
  \/ (\E p \in DOMAIN procs : OnExit(p)) /\ UNCHANGED <<guardVars, bridgeVars>>
  \/ (RestartTimerFires(MaxBackoffSpawns)) /\ UNCHANGED <<guardVars, bridgeVars>>
  \/ (Dispose) /\ UNCHANGED <<guardVars, bridgeVars>>

BackoffSpec == Init /\ [][BackoffNext]_vars

\* The pairing guard alone, constructed with either option over any store file,
\* with operations in flight together and one client, the clock standing still.
PairNext ==
  \/ (\E o \in OpSlots : Status(o)) /\ UNCHANGED <<rpcVars, bridgeVars>>
  \/ (\E o \in OpSlots : IsAuthenticated(o)) /\ UNCHANGED <<rpcVars, bridgeVars>>
  \/ (\E o \in OpSlots : TryPair(o)) /\ UNCHANGED <<rpcVars, bridgeVars>>
  \/ LoadDone /\ UNCHANGED <<rpcVars, bridgeVars>>
  \/ (\E o \in OpSlots : StatusBody(o)) /\ UNCHANGED <<rpcVars, bridgeVars>>
  \/ (\E o \in OpSlots : \E token \in TokenInputs : IsAuthenticatedBody(o, token))
       /\ UNCHANGED <<rpcVars, bridgeVars>>
  \/ (\E o \in OpSlots : \E code \in CodeInputs : \E client \in PairClients :
        TryPairBody(o, code, client)) /\ UNCHANGED <<rpcVars, bridgeVars>>
  \/ (\E o \in OpSlots : PersistDone(o)) /\ UNCHANGED <<rpcVars, bridgeVars>>
  \/ (\E o \in OpSlots : ResetPairingCodeForTestingOnly(o)) /\ UNCHANGED <<rpcVars, bridgeVars>>
  \/ (\E o \in OpSlots : ResetBody(o)) /\ UNCHANGED <<rpcVars, bridgeVars>>

PairInit == RpcInit /\ GuardInit /\ BridgeIdle

PairSpec == PairInit /\ [][PairNext]_vars

\* The pairing attempts alone: tryPair() and resetPairingCodeForTestingOnly()
\* in flight together over any store file, one client, the clock standing still.
RaceNext ==
  \/ (\E o \in OpSlots : TryPair(o)) /\ UNCHANGED <<rpcVars, bridgeVars>>
  \/ (\E o \in OpSlots : ResetPairingCodeForTestingOnly(o)) /\ UNCHANGED <<rpcVars, bridgeVars>>
  \/ LoadDone /\ UNCHANGED <<rpcVars, bridgeVars>>
  \/ (\E o \in OpSlots : \E code \in CodeInputs : \E client \in PairClients :
        TryPairBody(o, code, client)) /\ UNCHANGED <<rpcVars, bridgeVars>>
  \/ (\E o \in OpSlots : ResetBody(o)) /\ UNCHANGED <<rpcVars, bridgeVars>>
  \/ (\E o \in OpSlots : PersistDone(o)) /\ UNCHANGED <<rpcVars, bridgeVars>>

RaceSpec == PairInit /\ [][RaceNext]_vars

\* Pairing attempts of two clients, in flight together, while time passes.
LockNext ==
  \/ (\E o \in OpSlots : TryPair(o)) /\ UNCHANGED <<rpcVars, bridgeVars>>
  \/ LoadDone /\ UNCHANGED <<rpcVars, bridgeVars>>
  \/ (\E o \in OpSlots : \E code \in CodeInputs : \E client \in ClientKeys :
        TryPairBody(o, code, client)) /\ UNCHANGED <<rpcVars, bridgeVars>>
  \/ (\E o \in OpSlots : PersistDone(o)) /\ UNCHANGED <<rpcVars, bridgeVars>>
  \/ Tick /\ UNCHANGED <<rpcVars, bridgeVars>>

\* A guard constructed with either option over no store file.
LockInit == RpcInit /\ GuardInit /\ BridgeIdle /\ ~disk.exists

LockSpec == LockInit /\ [][LockNext]_vars

\* The n-th client of a flood of distinct identities sends its request n ms
\* after the guard was constructed: the identity of the client of this instant.
FloodClient == ToString(now - StartMs)

\* The flood has sent the request of this instant.
FloodSent == \E i \in 1..Len(attempts) : attempts[i].key = FloodClient

\* The next client of the flood is due.
FloodTick ==
  /\ FloodSent
  /\ now - StartMs < MaxFlood
  /\ \A o \in OpSlots : ops[o].pc = "idle"
  /\ now' = now + 1
  /\ UNCHANGED <<requirePairing, pairingCode, tokenHashes, attempts, loadPromise, everLoaded,
                 disk, issued, shownCode, ops, last>>

\* A flood of pairing attempts with a wrong code, each from a new identity,
\* one request at a time.
FloodNext ==
  \/ (\E o \in OpSlots : ~FloodSent /\ (\A q \in OpSlots : ops[q].pc = "idle") /\ TryPair(o))
       /\ UNCHANGED <<rpcVars, bridgeVars>>
  \/ LoadDone /\ UNCHANGED <<rpcVars, bridgeVars>>
  \/ (\E o \in OpSlots : TryPairBody(o, <<"x">>, FloodClient)) /\ UNCHANGED <<rpcVars, bridgeVars>>
  \/ FloodTick /\ UNCHANGED <<rpcVars, bridgeVars>>

\* A guard that requires pairing, over no store file.
FloodInit == RpcInit /\ GuardIdle /\ BridgeIdle

FloodSpec == FloodInit /\ [][FloodNext]_vars

\* The identity that gets locked out before the flood begins.
Victim == "c1"

\* The victim's record says it is locked (it was locked at the first instant).
VictimLocked ==
  \E i \in 1..Len(attempts) : attempts[i].key = Victim /\ attempts[i].lockedAtMs # 0

\* The first instant is the victim's; each later one is a client's of the flood.
VictimTurn == now = StartMs

\* The client whose request is due at this instant, and whether it is done
\* with its requests: the victim when it is locked, a client of the flood
\* when it has sent its one request.
DueClient == IF VictimTurn THEN Victim ELSE FloodClient

DueDone == IF VictimTurn THEN VictimLocked ELSE FloodSent

\* The next instant, with the next client of the flood.
LockFloodTick ==
  /\ DueDone
  /\ now - StartMs < MaxFlood
  /\ \A o \in OpSlots : ops[o].pc = "idle"
  /\ now' = now + 1
  /\ UNCHANGED <<requirePairing, pairingCode, tokenHashes, attempts, loadPromise, everLoaded,
                 disk, issued, shownCode, ops, last>>

\* One identity fails until it is locked out, and then a flood of pairing
\* attempts with a wrong code follows, each from a new identity, one request
\* at a time, a millisecond apart.
LockFloodNext ==
  \/ (\E o \in OpSlots : ~DueDone /\ (\A q \in OpSlots : ops[q].pc = "idle") /\ TryPair(o))
       /\ UNCHANGED <<rpcVars, bridgeVars>>
  \/ LoadDone /\ UNCHANGED <<rpcVars, bridgeVars>>
  \/ (\E o \in OpSlots : TryPairBody(o, <<"x">>, DueClient)) /\ UNCHANGED <<rpcVars, bridgeVars>>
  \/ LockFloodTick /\ UNCHANGED <<rpcVars, bridgeVars>>

LockFloodSpec == FloodInit /\ [][LockFloodNext]_vars

\* The bridge: requests to the sensitive routes with or without a token, the
\* streams they open and close, the child's spawn and exit, and the bridge's
\* dispose, over a store file that holds a token's hash or none.
BridgeNext ==
  \/ \E r \in ReqSlots : \E route \in Routes : Request(r, route)
  \/ LoadDone /\ UNCHANGED <<rpcVars, bridgeVars>>
  \/ \E r \in ReqSlots : \E token \in RequestTokens : AuthStatus(r, token)
  \/ \E r \in ReqSlots : AuthToken(r)
  \/ \E r \in ReqSlots : RouteCommand(r, MaxSpawns)
  \/ \E r \in ReqSlots : RouteEvents(r, MaxSpawns)
  \/ (\E c \in Slots : Resume(c)) /\ UNCHANGED <<guardVars, bridgeVars>>
  \/ (\E p \in DOMAIN procs : OnSpawn(p)) /\ UNCHANGED <<guardVars, bridgeVars>>
  \/ (\E p \in DOMAIN procs : OnExit(p)) /\ UNCHANGED <<guardVars, bridgeVars>>
  \/ \E r \in ReqSlots : StreamStarted(r)
  \/ \E r \in ReqSlots : StreamProbe(r)
  \/ \E r \in ReqSlots : StreamStatus(r)
  \/ \E r \in ReqSlots : StreamClose(r)
  \/ \E r \in ReqSlots : SetUpClose(r)
  \/ BridgeDispose

BridgeInit ==
  /\ RpcInit
  /\ GuardInit
  /\ BridgeIdle
  /\ disk.entries \subseteq {HashToken(LegacyToken)}
  /\ disk.exists = (disk.entries # {})

BridgeSpec == BridgeInit /\ [][BridgeNext]_vars

\* The bridge with every step of its handlers, of the guard and of the
\* supervisor taken in the end, and every spawn reported; requests, closes,
\* exits and the bridge's dispose come as they may.
BridgeLiveSpec ==
  /\ BridgeSpec
  /\ WF_vars(LoadDone /\ UNCHANGED <<rpcVars, bridgeVars>>)
  /\ \A r \in ReqSlots :
       /\ WF_vars(\E token \in RequestTokens : AuthStatus(r, token))
       /\ WF_vars(AuthToken(r))
       /\ WF_vars(RouteCommand(r, MaxSpawns))
       /\ WF_vars(RouteEvents(r, MaxSpawns))
       /\ WF_vars(StreamStarted(r))
       /\ WF_vars(StreamProbe(r))
       /\ WF_vars(StreamStatus(r))
  /\ \A c \in Slots : WF_vars(Resume(c) /\ UNCHANGED <<guardVars, bridgeVars>>)
  /\ WF_vars((\E p \in DOMAIN procs : OnSpawn(p)) /\ UNCHANGED <<guardVars, bridgeVars>>)

\* The websocket chat bridge, with its own guard and supervisor: connections
\* with or without a token, their messages at any time, and the child's
\* spawn, over a store file that holds a token's hash or none.
WsNext ==
  \/ \E w \in ReqSlots : \E token \in RequestTokens : WsConnect(w, token)
  \/ LoadDone /\ UNCHANGED <<rpcVars, bridgeVars>>
  \/ \E w \in ReqSlots : WsAuthStatus(w)
  \/ \E w \in ReqSlots : WsAuthToken(w)
  \/ \E w \in ReqSlots : WsMessage(w, MaxSpawns)
  \/ (\E c \in Slots : Resume(c)) /\ UNCHANGED <<guardVars, bridgeVars>>
  \/ (\E p \in DOMAIN procs : OnSpawn(p)) /\ UNCHANGED <<guardVars, bridgeVars>>

WsSpec == BridgeInit /\ [][WsNext]_vars

\* The supervisor with a listener registered (onNotification) before anything
\* else is asked of it, as the bridge's event stream does; calls only.
NotifyInit ==
  /\ status = "stopped"
  /\ process = 0
  /\ startPromise = 0
  /\ restartTimer = 0
  /\ disposed = FALSE
  /\ restartCount = 0
  /\ requestCounter = 1
  /\ pending = {}
  /\ procs = NoProcs
  /\ spawnCount = 0
  /\ callers = [c \in Slots |-> IdleCaller]
  /\ restartTimers = 0
  /\ lastError = "none"
  /\ listening = TRUE
  /\ emitted = <<>>
  /\ GuardIdle
  /\ BridgeIdle

\* The lines of NotifySpec: every line that is no response, and the responses
\* that say success or failure and carry no data.
NotifyLinesNow ==
  {line \in LinesNow : line.kind = "response" => (line.data = "absent" /\ line.success # "absent")}

NotifyNext ==
  \/ (\E c \in Slots : Call(c, MaxSpawns)) /\ UNCHANGED <<guardVars, bridgeVars>>
  \/ (\E c \in Slots : Resume(c)) /\ UNCHANGED <<guardVars, bridgeVars>>
  \/ (\E c \in Slots : TimeoutFires(c)) /\ UNCHANGED <<guardVars, bridgeVars>>
  \/ (\E p \in DOMAIN procs : OnSpawn(p)) /\ UNCHANGED <<guardVars, bridgeVars>>
  \/ (\E p \in DOMAIN procs : OnExit(p)) /\ UNCHANGED <<guardVars, bridgeVars>>
  \/ (\E p \in DOMAIN procs : \E line \in NotifyLinesNow : HandleStdoutLine(p, line)) /\ UNCHANGED <<guardVars, bridgeVars>>
  \/ (RestartTimerFires(MaxSpawns)) /\ UNCHANGED <<guardVars, bridgeVars>>
  \/ (Dispose) /\ UNCHANGED <<guardVars, bridgeVars>>

NotifySpec == NotifyInit /\ [][NotifyNext]_vars

\* The supervisor with its child's stderr: calls, the child's events and dispose().
ExitNext ==
  \/ (\E c \in Slots : Call(c, MaxSpawns)) /\ UNCHANGED <<guardVars, bridgeVars>>
  \/ (\E c \in Slots : Resume(c)) /\ UNCHANGED <<guardVars, bridgeVars>>
  \/ (\E p \in DOMAIN procs : OnSpawn(p)) /\ UNCHANGED <<guardVars, bridgeVars>>
  \/ (\E p \in DOMAIN procs : OnStderr(p)) /\ UNCHANGED <<guardVars, bridgeVars>>
  \/ (\E p \in DOMAIN procs : OnExit(p)) /\ UNCHANGED <<guardVars, bridgeVars>>
  \/ (RestartTimerFires(MaxSpawns)) /\ UNCHANGED <<guardVars, bridgeVars>>
  \/ (Dispose) /\ UNCHANGED <<guardVars, bridgeVars>>

ExitSpec == Init /\ [][ExitNext]_vars

\* The event loop runs every queued continuation, and a timer that is set and
\* not cleared fires.
LiveSpec ==
  /\ Init
  /\ [][Next]_vars
  /\ \A c \in Slots : WF_vars(Resume(c) /\ UNCHANGED <<guardVars, bridgeVars>>)
  /\ \A c \in Slots : WF_vars(TimeoutFires(c) /\ UNCHANGED <<guardVars, bridgeVars>>)
  /\ WF_vars(RestartTimerFires(MaxSpawns) /\ UNCHANGED <<guardVars, bridgeVars>>)

TypeOK ==
  /\ status \in {"stopped", "starting", "running", "errored"}
  /\ process \in 0..spawnCount
  /\ startPromise \in 0..spawnCount
  /\ restartTimer \in 0..RestartCapMs
  /\ \A c \in Slots : callers[c].settles \in 0..2
  /\ pending \subseteq 1..MaxCalls
  /\ requestCounter \in 1..(MaxCalls + 1)
  /\ lastError \in {"none", "stderr", "exit"}
  /\ restartTimers \in 0..MaxSpawns

\* ------------------------------------------------------------------ claims
AliveProcs == {p \in DOMAIN procs : procs[p].st = "alive"}

IsCall(c) == callers[c].kind = "call"

\* C1: a call()'s promise is resolved or rejected at most once, whatever the
\* interleaving of its response, its timeout, a write failure, an exit and
\* dispose(): a finished call was settled exactly once, an unfinished one never.
C1_SettlesAtMostOnce ==
  \A c \in Slots :
    IsCall(c) =>
      /\ callers[c].settles <= 1
      /\ (callers[c].pc = "done") <=> (callers[c].settles = 1)
      /\ (callers[c].pc = "done") => ~callers[c].timer /\ callers[c].id \notin pending

\* Two calls settled in different ways (a response, the child's exit) and the
\* supervisor disposed afterwards.
C1_Witness ==
  /\ disposed
  /\ \E c, d \in Slots :
       /\ IsCall(c) /\ callers[c].outcome = "ok"
       /\ IsCall(d) /\ callers[d].outcome = "exit"

\* C2: under LiveSpec (timers fire, continuations run) a call that was
\* registered in the pending map is eventually settled and its entry removed.
C2_CallEventuallySettles ==
  \A c \in Slots :
    (callers[c].pc = "pending" /\ callers[c].id \in pending)
      ~> (callers[c].pc = "done" /\ callers[c].id \notin pending)

\* A call that nothing answered and that its timer rejected.
C2_Witness ==
  \E c \in Slots : IsCall(c) /\ callers[c].outcome = "timeout" /\ process # 0

\* C3: when a spawned child exits and the supervisor is not disposed, every
\* pending call is rejected (once, with the exit error, its timer cleared), the
\* pending map is empty, the handle is cleared and status is errored.
C3_ExitFailsAllPending ==
  [][\A p \in DOMAIN procs :
       (procs[p].st = "alive" /\ p \notin DOMAIN procs' /\ ~disposed) =>
         /\ \A c \in Slots :
              (callers[c].pc = "pending") =>
                /\ callers[c].id \in pending
                /\ callers[c].settles = 0
                /\ callers'[c].pc = "done"
                /\ callers'[c].outcome = "exit"
                /\ callers'[c].settles = 1
                /\ ~callers'[c].timer
         /\ pending' = {}
         /\ process' = 0
         /\ status' = "errored"]_vars

\* The child exited with two calls pending.
C3_Witness ==
  /\ status = "errored"
  /\ pending = {}
  /\ \A c \in Slots : IsCall(c) /\ callers[c].outcome = "exit" /\ callers[c].settles = 1

\* C4: after an exit while not disposed (status errored) a restart timer is
\* pending, and under LiveSpec a new spawn is attempted (status starting)
\* unless dispose() is called first.  The premise leaves room for one more
\* spawn() within the model's bound.
C4_RestartAfterExit ==
  /\ [](status = "errored" => (restartTimer # 0 /\ ~disposed))
  /\ (status = "errored" /\ spawnCount < MaxSpawns) ~> (status = "starting" \/ disposed)

\* The second spawn was attempted although only one client ever called in.
C4_Witness ==
  /\ spawnCount = 2
  /\ status = "starting"
  /\ restartTimer = 0
  /\ callers[1].pc = "done"
  /\ \A c \in Slots : c > 1 => callers[c].pc = "idle"

\* C5: the delay of a restart timer that is set equals 1 s per successful spawn
\* so far up to 30 spawns and 30 s beyond; restartCount counts the successful
\* spawns (it grows by one exactly when a child reports `spawn`).
C5_BackoffDelay ==
  /\ [][(restartTimer = 0 /\ restartTimer' # 0) =>
          /\ restartCount' >= 1
          /\ restartTimer' = IF restartCount' <= 30 THEN 1000 * restartCount' ELSE 30000]_vars
  /\ [][(restartCount' # restartCount) <=>
          (\E p \in DOMAIN procs :
             /\ procs[p].st = "spawning"
             /\ p \in DOMAIN procs'
             /\ procs'[p].st = "alive"
             /\ restartCount' = restartCount + 1)]_vars
  /\ [](restartTimer <= 30000)

\* The cap is reached: more than 30 spawns and a 30 s timer.
C5_Witness == restartCount > 30 /\ restartTimer = 30000

\* C6: a response line whose id is that of a pending call and whose success is
\* not false resolves that call with the line's data (null when absent),
\* in whatever state earlier lines left the supervisor.
C6_RoundTrip ==
  [][\A c \in Slots :
       callers[c].pc = "pending" =>
         \A success \in {"true", "absent"} : \A data \in {"absent", "dA"} :
           \A p \in DOMAIN procs :
             HandleStdoutLine(p, [kind |-> "response", id |-> callers[c].id,
                                  success |-> success, data |-> data]) =>
               /\ callers'[c].pc = "done"
               /\ callers'[c].outcome = "ok"
               /\ callers'[c].settles = 1
               /\ callers'[c].data = (IF data = "dA" THEN "dA" ELSE "null")
               /\ callers[c].id \notin pending']_vars

\* A call resolved with its response's data while an earlier call, answered by
\* no line so far, is still pending.
C6_Witness ==
  \E c, d \in Slots :
    /\ IsCall(c) /\ callers[c].outcome = "ok" /\ callers[c].data = "dA"
    /\ callers[d].pc = "pending" /\ callers[d].id < callers[c].id

\* The callers that wait for the start promise.
Joiners == {c \in Slots : callers[c].pc = "awaitJoin"}

\* An ensureStarted()/call() invoked while a spawn is pending or a child is held
\* spawns nothing.
NoSecondSpawn ==
  [][\A c \in Slots :
       (/\ callers[c].pc = "idle"
        /\ callers'[c].pc # "idle"
        /\ (startPromise # 0 \/ process # 0)) =>
         (spawnCount' = spawnCount /\ procs' = procs)]_vars

\* The callers that wait all wait for the one spawn in flight and leave the
\* wait together, resolved when it reports `spawn`, rejected when it fails.
JoinersShareOutcome ==
  /\ [](\A c \in Joiners :
          /\ callers[c].join = startPromise
          /\ startPromise \in DOMAIN procs
          /\ procs[startPromise].st = "spawning")
  /\ [][(\E c \in Joiners : callers'[c].pc # "awaitJoin") =>
          \/ /\ startPromise \in AliveProcs'
             /\ \A c \in Joiners : callers'[c].pc = "resumeOk"
          \/ /\ startPromise \notin DOMAIN procs'
             /\ \A c \in Joiners : callers'[c].pc = "resumeErr"]_vars

\* C7 as stated: every invocation made while a spawn is pending joins it, and
\* every one made while a child is held resolves.
C7_EveryCallerJoins ==
  [][\A c \in Slots :
       (callers[c].pc = "idle" /\ callers'[c].pc # "idle") =>
         /\ startPromise # 0 =>
              (callers'[c].pc = "awaitJoin" /\ callers'[c].join = startPromise)
         /\ process # 0 => callers'[c].pc = "resumeOk"]_vars

\* C7 (amended): invocations made while a spawn is pending or a child is held
\* spawn nothing; those made while the supervisor is not disposed join the
\* pending spawn (or resolve at once when a child is held), and the joiners
\* share the spawn's outcome.
C7_EnsureStartedIdempotent ==
  /\ NoSecondSpawn
  /\ JoinersShareOutcome
  /\ [][\A c \in Slots :
          (callers[c].pc = "idle" /\ callers'[c].pc # "idle" /\ ~disposed) =>
            /\ startPromise # 0 =>
                 (callers'[c].pc = "awaitJoin" /\ callers'[c].join = startPromise)
            /\ process # 0 => callers'[c].pc = "resumeOk"]_vars

\* Two callers joined one spawn and were resolved by it.
C7_Witness ==
  /\ spawnCount = 1
  /\ \A c \in Slots : callers[c].join = 1 /\ callers[c].pc = "resumeOk"

\* C8: at most one spawned child is alive.
C8_AtMostOneAlive == Cardinality(AliveProcs) <= 1

\* A child was respawned by a call while the restart timer is still pending.
C8_Witness == AliveProcs # {} /\ spawnCount >= 2 /\ restartTimer # 0

\* C9: status is running exactly when the supervisor holds a handle.
C9_RunningIffHandle == (status = "running") <=> (process # 0)

\* Running again after a restart.
C9_Witness == status = "running" /\ process # 0 /\ restartCount >= 2

\* An operation of this kind returns in this step.
Returns(o, kind) ==
  /\ ops[o].kind = kind
  /\ ops[o].pc \in {"body", "persist"}
  /\ ops'[o].pc = "idle"

\* Six decimal digits.
SixDigits(code) ==
  /\ Len(code) = 6
  /\ \A i \in 1..Len(code) : code[i] \in {"0", "1", "2", "3", "4", "5", "6", "7", "8", "9"}

\* status() on a guard that requires pairing and knows no token: paired is
\* false and the code has six digits.
C10_FreshStatus ==
  \A o \in OpSlots :
    (Returns(o, "status") /\ requirePairing /\ tokenHashes = {}) =>
      (~last'.rpaired /\ SixDigits(last'.rcode))

\* A tryPair() that was given the code the latest status() returned (no token
\* known, no failed attempt, nothing else in flight) returns a token, unless
\* the store cannot be written.
C10_ShownCodePairs ==
  \A o \in OpSlots :
    (Returns(o, "tryPair") /\ ops[o].flow) => last'.res \in {"ok", "error"}

\* Once a token was issued, status() returns paired and no code, and tryPair()
\* fails with already_paired (or locked, for a client that is locked out).
C10_AfterPairing ==
  \A o \in OpSlots :
    /\ (Returns(o, "status") /\ issued > 0) => (last'.rpaired /\ last'.rcode = <<>>)
    /\ (Returns(o, "tryPair") /\ ops[o].pc = "body" /\ issued > 0) =>
         last'.res \in {"already_paired", "locked"}

\* C10: the pairing flow on a fresh guard: status() shows a 6-digit code and
\* paired false, tryPair() with the code status() returned succeeds, and from
\* then on status() shows paired true with no code and tryPair() fails with
\* already_paired.
C10_PairingFlow == [][C10_FreshStatus /\ C10_ShownCodePairs /\ C10_AfterPairing]_vars

\* C11: while pairing is required and no token is known, no operation replaces
\* a pending pairing code by another one: the code stays what it is until a
\* tryPair() succeeds (the stored state is loaded once and kept).
C11_PendingCodeKept ==
  [][(requirePairing /\ pairingCode # <<>> /\ tokenHashes' = {} /\ issued' = issued
        /\ \A o \in OpSlots : ops[o].kind # "reset") =>
       pairingCode' = pairingCode]_vars

\* C12: once a load has completed, a code is pending exactly when pairing is
\* required and no token is known; a token once issued, the code is null and
\* status() shows none.
C12_CodeIffUnpaired ==
  /\ [](everLoaded => ((pairingCode # <<>>) <=> (requirePairing /\ tokenHashes = {})))
  /\ [](issued > 0 => pairingCode = <<>>)
  /\ [][\A o \in OpSlots : (Returns(o, "status") /\ issued > 0) => shownCode' = <<>>]_vars

\* C13: at most one tryPair() ever matches the code and generates a token,
\* also with several tryPair() in flight together: the code is cleared in the
\* step that generates the token and is never generated again.
C13_SinglePairing == issued <= 1

\* Two tryPair() in flight together: one matched and is writing the store,
\* the other one has returned already_paired.
C13_Witness ==
  /\ issued = 1
  /\ \E o \in OpSlots : ops[o].kind = "tryPair" /\ ops[o].pc = "persist"
  /\ last.kind = "tryPair" /\ last.res = "already_paired"

\* The body of the tryPair() in slot o runs in this step.
BodyStep(o) == ops[o].pc = "body" /\ ops[o].kind = "tryPair" /\ ops'[o].pc # "body"

\* The client identity that tryPair() was called with.
StepKey(o) == IF ops'[o].pc = "persist" THEN ops'[o].key ELSE last'.key

\* The failure record attempts holds for key.
HasRecord(key) == \E i \in 1..Len(attempts) : attempts[i].key = key

RecordOf(key) == attempts[CHOOSE i \in 1..Len(attempts) : attempts[i].key = key]

\* The client identity was locked less than 300 s ago.
LockedNow(key) ==
  /\ HasRecord(key)
  /\ RecordOf(key).lockedAtMs # 0
  /\ now - RecordOf(key).lockedAtMs < LOCKOUT_SECONDS * 1000

\* The client identity was locked 300 s ago or earlier.
LockRanOut(key) ==
  /\ HasRecord(key)
  /\ RecordOf(key).lockedAtMs # 0
  /\ now - RecordOf(key).lockedAtMs >= LOCKOUT_SECONDS * 1000

\* The failures that still count for key: none once its lockout ran out.
LiveCount(key) ==
  IF ~HasRecord(key) \/ LockRanOut(key) THEN 0 ELSE RecordOf(key).count

\* The step is the body of a tryPair() that finds pairing required, the client
\* not locked out, a code pending and another code given.
WrongAttempt(o) ==
  /\ BodyStep(o)
  /\ requirePairing
  /\ ops'[o].pc = "idle"
  /\ ~LockedNow(last'.key)
  /\ last'.given = "wrong"

\* The step is the body of the tryPair() of a client that is locked out.
LockedAttempt(o) == BodyStep(o) /\ requirePairing /\ LockedNow(StepKey(o))

C15_ResumeFromZero ==
  /\ [][\A o \in OpSlots :
          (WrongAttempt(o) /\ LockRanOut(last'.key)) =>
            /\ last'.res = "invalid_code"
            /\ AttemptCount(attempts', last'.key) = 1
            /\ attempts'[AttemptIndex(attempts', last'.key)].lockedAtMs = 0]_vars
  /\ [](\A i \in 1..Len(attempts) :
          attempts[i].count < MAX_PAIR_ATTEMPTS => attempts[i].lockedAtMs = 0)

\* A client was locked out, its lockout ran out, and its next wrong code
\* returned invalid_code.
C15_Witness ==
  /\ last.res = "invalid_code"
  /\ last.was = MAX_PAIR_ATTEMPTS
  /\ AttemptCount(attempts, last.key) = 1

\* C16: a tryPair() of a client locked out returns locked and changes nothing,
\* whether the code it gives is the pending one or no code is pending at all;
\* on a guard that does not require pairing every tryPair() returns
\* pairing_disabled.
C16_LockedBeforeCode ==
  [][\A o \in OpSlots :
       /\ LockedAttempt(o) =>
            /\ ops'[o].pc = "idle"
            /\ last'.res = "locked"
            /\ issued' = issued
            /\ tokenHashes' = tokenHashes
            /\ pairingCode' = pairingCode
       /\ (BodyStep(o) /\ ~requirePairing) =>
            /\ ops'[o].pc = "idle"
            /\ last'.res = "pairing_disabled"
            /\ issued' = issued
            /\ attempts' = attempts
            /\ pairingCode' = pairingCode]_vars

\* A client locked out gave the pending code and was answered locked.
C16_Witness ==
  /\ last.res = "locked"
  /\ last.given = "match"
  /\ last.was = MAX_PAIR_ATTEMPTS
  /\ issued = 0

\* A response line with this id.
ResponseLine(id, success, data) ==
  [kind |-> "response", id |-> id, success |-> success, data |-> data]

\* C17: a stdout line that is no JSON delivers exactly one pi/error
\* notification and changes nothing else: status, the handle, the pending map,
\* restartCount and every call are as before, and the child's next line is
\* handled as it would have been.
C17_MalformedLine ==
  [][\A p \in DOMAIN procs :
       HandleStdoutLine(p, [kind |-> "malformed", id |-> 0, success |-> "absent",
                            data |-> "absent"]) =>
         /\ emitted' = <<"pi/error">>
         /\ status' = status
         /\ process' = process
         /\ pending' = pending
         /\ restartCount' = restartCount
         /\ callers' = callers
         /\ procs' = procs
         /\ restartTimer' = restartTimer
         /\ disposed' = disposed]_vars

\* A line that is no JSON was handled while the child runs and a call is pending.
C17_Witness ==
  /\ emitted = <<"pi/error">>
  /\ status = "running"
  /\ pending # {}
  /\ \E c \in Slots : callers[c].pc = "pending" /\ callers[c].timer

\* C18: the timeout of a call removes its entry and rejects it with the
\* timeout error; a response with its id handled afterwards settles nothing,
\* delivers no notification and changes no state.
C18_LateResponseIgnored ==
  [][\A c \in Slots :
       /\ (callers[c].timer /\ TimeoutFires(c)) =>
            /\ callers'[c].pc = "done"
            /\ callers'[c].outcome = "timeout"
            /\ callers'[c].settles = 1
            /\ callers[c].id \notin pending'
       /\ (callers[c].outcome = "timeout" /\ requestCounter' = requestCounter) =>
            \A p \in DOMAIN procs :
              procs[p].st = "alive" =>
                \A success \in {"true", "false", "absent"} : \A data \in {"absent", "dA"} :
                  HandleStdoutLine(p, ResponseLine(callers[c].id, success, data)) =>
                    /\ callers' = callers
                    /\ pending' = pending
                    /\ emitted' = <<>>
                    /\ status' = status
                    /\ process' = process
                    /\ requestCounter' = requestCounter
                    /\ restartTimer' = restartTimer]_vars

\* A call timed out under a child that still runs, so that its response can
\* still arrive, while a later call waits for its own.
C18_Witness ==
  /\ process # 0
  /\ ~MicrotaskQueued
  /\ \E c, d \in Slots :
       /\ callers[c].outcome = "timeout"
       /\ callers[c].sentTo = process
       /\ callers[d].pc = "pending"
       /\ callers[d].id > callers[c].id

\* C19: the ids of the calls are all different, whether they were issued
\* together under one child or under different ones (the counter never goes
\* back), every entry of the pending map belongs to one call that waits, and a
\* response changes no call but the one that has its id.
C19_FreshIds ==
  /\ [](\A c, d \in Slots :
          (c # d /\ callers[c].id # 0) => callers[c].id # callers[d].id)
  /\ [](\A c \in Slots : callers[c].id < requestCounter)
  /\ [](\A id \in pending :
          \E c \in Slots : callers[c].id = id /\ callers[c].pc = "pending")
  /\ [][requestCounter' >= requestCounter]_vars
  /\ [][\A c \in Slots :
          (callers[c].pc = "pending" /\ callers'[c] # callers[c]) =>
            \A id \in (1..requestCounter) \ {callers[c].id} :
              \A success \in {"true", "false", "absent"} : \A data \in {"absent", "dA"} :
                \A p \in DOMAIN procs :
                  ~HandleStdoutLine(p, ResponseLine(id, success, data))]_vars

\* Two calls registered under different children, the second one after a restart.
C19_Witness ==
  \E c, d \in Slots :
    /\ callers[c].id # 0 /\ callers[d].id # 0
    /\ callers[c].sentTo # 0 /\ callers[d].sentTo # 0
    /\ callers[c].sentTo < callers[d].sentTo
    /\ callers[d].pc = "pending"

\* C20: with several calls pending, a response settles the call that has its
\* id, with the response's own outcome, whatever the order of the ids, and
\* leaves the other calls and their entries as they are.
C20_MatchedById ==
  [][\A c \in Slots :
       (callers[c].pc = "pending" /\ Cardinality(pending) >= 2) =>
         \A success \in {"true", "false", "absent"} : \A data \in {"absent", "dA"} :
           \A p \in DOMAIN procs :
             HandleStdoutLine(p, ResponseLine(callers[c].id, success, data)) =>
               /\ callers'[c].pc = "done"
               /\ callers'[c].outcome = (IF success = "false" THEN "failed" ELSE "ok")
               /\ \A d \in Slots \ {c} : callers'[d] = callers[d]
               /\ pending' = pending \ {callers[c].id}]_vars

\* The call issued last was answered first (with a failure), the one issued
\* before it still waits.
C20_Witness ==
  \E c, d \in Slots :
    /\ callers[c].pc = "pending"
    /\ callers[d].outcome = "failed"
    /\ callers[c].id < callers[d].id
    /\ callers[c].sentTo = callers[d].sentTo

\* C21: a response with success false, the timeout of a call and a write that
\* throws reject the one call concerned: the other calls and their entries, the
\* process handle and status stay as they are.  Two calls that wait are
\* rejected in one step only by the child's exit or by dispose().
C21_RejectsOneCall ==
  [][\A c \in Slots :
       /\ (callers[c].pc = "pending" /\ requestCounter' = requestCounter) =>
            \A data \in {"absent", "dA"} : \A p \in DOMAIN procs :
              HandleStdoutLine(p, ResponseLine(callers[c].id, "false", data)) =>
                /\ callers'[c].outcome = "failed"
                /\ \A d \in Slots \ {c} : callers'[d] = callers[d]
                /\ pending' = pending \ {callers[c].id}
                /\ process' = process
                /\ status' = status
       /\ (callers[c].timer /\ TimeoutFires(c)) =>
            /\ callers'[c].outcome = "timeout"
            /\ \A d \in Slots \ {c} : callers'[d] = callers[d]
            /\ pending' = pending \ {callers[c].id}
            /\ process' = process
            /\ status' = status
       /\ (callers[c].pc = "resumeOk" /\ callers'[c].outcome = "write") =>
            /\ \A d \in Slots \ {c} : callers'[d] = callers[d]
            /\ pending' = pending
            /\ process' = process
            /\ status' = status
       /\ \A d \in Slots \ {c} :
            (/\ callers[c].pc = "pending" /\ callers[d].pc = "pending"
             /\ callers'[c].pc = "done" /\ callers'[d].pc = "done") =>
              /\ callers'[c].outcome \in {"exit", "disposed"}
              /\ callers'[d].outcome = callers'[c].outcome
              /\ process' = 0]_vars

\* The write of a call threw while another call waits under the running child.
C21_Witness ==
  /\ status = "running"
  /\ process # 0
  /\ \E c, d \in Slots :
       /\ callers[c].outcome = "write"
       /\ callers[d].pc = "pending"
       /\ callers[d].timer
       /\ callers[d].id < callers[c].id
       /\ callers[d].id \in pending

\* An invocation of call() or ensureStarted() that found the supervisor disposed.
InvokedDisposed(c) == callers[c].err = "disposed"

\* C22: dispose() clears the restart timer and rejects every waiting call;
\* while disposed no restart timer is set and nothing is spawned, and a call()
\* or ensureStarted() invoked then is rejected with the disposed error without
\* an id, an entry, a timer or a write.
C22_DisposedForGood ==
  /\ [](disposed => restartTimer = 0)
  /\ [](\A c \in Slots :
          InvokedDisposed(c) =>
            /\ callers[c].id = 0
            /\ callers[c].sentTo = 0
            /\ ~callers[c].timer
            /\ callers[c].pc \in {"resumeErr", "done"}
            /\ callers[c].pc = "done" => callers[c].outcome = "disposed")
  /\ [][/\ Dispose =>
             /\ restartTimer' = 0
             /\ pending' = {}
             /\ \A c \in Slots :
                  callers[c].pc = "pending" =>
                    (callers'[c].pc = "done" /\ callers'[c].outcome = "disposed"
                       /\ ~callers'[c].timer)
        /\ disposed =>
             /\ spawnCount' = spawnCount
             /\ DOMAIN procs' \subseteq DOMAIN procs
             /\ \A c \in Slots :
                  (callers[c].pc = "idle" /\ callers'[c].pc # "idle") =>
                    (InvokedDisposed(c)' /\ pending' = pending
                       /\ requestCounter' = requestCounter)]_vars

\* dispose() rejected a waiting call, and a call() made afterwards was rejected too.
C22_Witness ==
  /\ disposed
  /\ \E c, d \in Slots :
       /\ callers[c].id # 0
       /\ callers[c].outcome = "disposed"
       /\ InvokedDisposed(d)
       /\ callers[d].kind = "call"
       /\ callers[d].pc = "done"

\* C23: a dispose() on a supervisor that is disposed already, or that never
\* started a child, leaves status stopped, the pending map empty, no restart
\* timer and no handle, and signals no process.
C23_DisposeIdempotent ==
  [][(Dispose /\ (disposed \/ spawnCount = 0)) =>
       /\ status' = "stopped"
       /\ pending' = {}
       /\ restartTimer' = 0
       /\ process' = 0
       /\ procs' = procs]_vars

\* C24: the exit of a child while the supervisor is disposed sets status
\* stopped, sets no restart timer, leaves lastError as it was and rejects the
\* calls that still wait.
C24_ExitWhileDisposed ==
  [][\A p \in DOMAIN procs :
       (disposed /\ OnExit(p)) =>
         /\ status' = "stopped"
         /\ restartTimer' = 0
         /\ lastError' = lastError
         /\ pending' = {}
         /\ \A c \in Slots :
              callers[c].pc = "pending" =>
                (callers'[c].pc = "done" /\ callers'[c].outcome = "exit"
                   /\ ~callers'[c].timer)]_vars

\* The only child there ever was exited on the disposed supervisor, after it
\* wrote to stderr, with a call waiting: lastError is still the stderr message.
C24_Witness ==
  /\ disposed
  /\ status = "stopped"
  /\ spawnCount = 1
  /\ procs = NoProcs
  /\ restartTimer = 0
  /\ lastError = "stderr"
  /\ \E c \in Slots : callers[c].outcome = "exit" /\ callers[c].sentTo = 1

\* C25: of the restart timeouts that were set, at most one has neither fired
\* nor been cleared, and it is the one this.restartTimer holds.
C25_OneRestartTimer ==
  /\ restartTimers <= 1
  /\ restartTimers = (IF restartTimer # 0 THEN 1 ELSE 0)

\* A second child exited while the restart timer of the first exit was still
\* pending (a call() had started the second child before the timer fired).
C25_Witness ==
  /\ ~disposed
  /\ status = "errored"
  /\ process = 0
  /\ restartCount = 2
  /\ restartTimer = RestartDelayMs(1)
  /\ restartTimers = 1

\* An isAuthenticated() returns in this step (last' holds its token and value).
AuthStep(o) ==
  /\ ops[o].pc = "body"
  /\ ops[o].kind = "isAuthenticated"
  /\ ops'[o].pc = "idle"
  /\ last'.kind = "isAuthenticated"

\* C27: isAuthenticated(token) is true exactly when pairing is not required, or
\* the trimmed token is not empty and its hash is in the token set; when
\* pairing is required a blank token is refused, and so is a token that was
\* neither loaded from the store nor returned by a tryPair() that succeeded
\* (whose write put its hash into the store) or is about to return it.
C27_AuthenticatedIffKnown ==
  [][\A o \in OpSlots :
       AuthStep(o) =>
         /\ (last'.res = "true") <=>
              (\/ ~requirePairing
               \/ (last'.rtoken.enc # "blank" /\ HashToken(last'.rtoken) \in tokenHashes))
         /\ (requirePairing /\ last'.rtoken.enc = "blank") => last'.res = "false"
         /\ (requirePairing /\ last'.res = "true" /\ last'.rtoken.tok >= 1) =>
              \/ HashToken(last'.rtoken) \in LoadedHashes(disk)
              \/ \E q \in OpSlots : ops[q].pc = "persist" /\ ops[q].rtoken = last'.rtoken
         /\ (requirePairing /\ last'.res = "true" /\ last'.rtoken.tok = 0) =>
              last'.rtoken = LegacyToken]_vars

\* C29: the attempts map never holds more than MAX_TRACKED_CLIENTS identities.
C29_MapBounded == Len(attempts) <= MAX_TRACKED_CLIENTS

\* An operation of this kind returns from its body in this step.
ReturnsNow(o, kind) ==
  /\ ops[o].pc = "body"
  /\ ops[o].kind = kind
  /\ ops'[o].pc = "idle"
  /\ last'.kind = kind

\* C30: while the write of a tryPair() is in progress, no other operation
\* observes what that tryPair() changed: status() still shows the code and does
\* not count the new hash, isAuthenticated() refuses the new token, and another
\* tryPair() is not told already_paired.
C30_WriteBeforeVisible ==
  [][\A q \in OpSlots :
       ops[q].pc = "persist" =>
         \A o \in OpSlots \ {q} :
           /\ ReturnsNow(o, "status") =>
                /\ last'.rcode # <<>>
                /\ last'.rpaired => tokenHashes \ {HashToken(ops[q].rtoken)} # {}
           /\ (ReturnsNow(o, "isAuthenticated") /\ last'.rtoken = ops[q].rtoken) =>
                last'.res = "false"
           /\ ReturnsNow(o, "tryPair") => last'.res # "already_paired"]_vars

\* ---------------------------------------------------------------- C26
\* A token the guard knows: not blank, and its hash is in the set.
TokenKnown(token) == token.enc # "blank" /\ HashToken(token) \in tokenHashes

\* C26: with pairing required, a request to a sensitive route (a command route
\* or the event stream) whose bearer token is missing or has a hash outside
\* the set is answered 401, and causes no call(), no ensureStarted() and no
\* subscription: the step that settles its authorisation rejects it and
\* leaves the supervisor and its listeners alone, a rejected request stays as
\* it is with no caller, listener or registration, and every call(),
\* ensureStarted() and subscription is made for a request whose token is known.
C26_UnauthorizedRejected ==
  /\ [](\A r \in ReqSlots :
         reqs[r].pc = "rejected" =>
           /\ reqs[r].code = 401
           /\ reqs[r].caller = 0
           /\ ~reqs[r].listener /\ ~reqs[r].registered /\ ~reqs[r].unsubscribe)
  /\ [][\A r \in ReqSlots :
         /\ (/\ requirePairing
             /\ reqs[r].pc \in {"authStatus", "authToken"}
             /\ reqs'[r].pc \notin {"authStatus", "authToken"}
             /\ ~TokenKnown(reqs[r].token)) =>
               /\ reqs'[r].pc = "rejected"
               /\ reqs'[r].code = 401
               /\ UNCHANGED rpcVars
         /\ reqs[r].pc = "rejected" => reqs'[r] = reqs[r]
         /\ (/\ requirePairing
             /\ \/ reqs'[r].caller # reqs[r].caller
                \/ reqs'[r].listener /\ ~reqs[r].listener
                \/ reqs'[r].registered /\ ~reqs[r].registered) =>
               TokenKnown(reqs[r].token)]_vars
  /\ [][\A c \in Slots :
         (callers[c].pc = "idle" /\ callers'[c].pc # "idle") =>
           \E r \in ReqSlots :
             /\ reqs[r].pc = "route"
             /\ reqs'[r].caller = c
             /\ requirePairing => TokenKnown(reqs[r].token)]_vars

\* A request with a token whose hash the set does not hold was rejected while
\* the set holds another, and a request with a known token made its call.
C26_Witness ==
  /\ requirePairing
  /\ tokenHashes # {}
  /\ \E r, q \in ReqSlots :
       /\ reqs[r].pc = "rejected"
       /\ reqs[r].token.enc # "blank"
       /\ reqs[q].pc = "calling"
       /\ callers[reqs[q].caller].pc # "idle"

\* ---------------------------------------------------------------- C28
\* C28: a stream's disconnect takes off its own listener and intervals and
\* nothing else: the other requests, their listeners included, and the
\* supervisor's process, status, pending calls and disposal are as before,
\* also when the stream was the last one; a stream that keeps its listener
\* over a step receives the notification of every change of status in it; and
\* the supervisor becomes disposed only in the bridge's dispose.
C28_DisconnectRemovesOwn ==
  /\ [](listening <=> \E d \in ReqSlots : reqs[d].listener)
  /\ [][\A r \in ReqSlots :
         StreamClose(r) =>
           /\ ~reqs'[r].listener /\ ~reqs'[r].keepAlive /\ ~reqs'[r].statusTicker
           /\ \A d \in ReqSlots \ {r} : reqs'[d] = reqs[d]
           /\ UNCHANGED <<process, status, pending, disposed, procs, callers>>]_vars
  /\ [][(/\ status' # status
          /\ \E d \in ReqSlots : reqs[d].listener /\ reqs'[d].listener) =>
            emitted' = <<StatusNotification(status')>>]_vars
  /\ [][disposed' # disposed => BridgeDispose]_vars

\* One stream has disconnected, and another, still subscribed, has received
\* the notification of the child's exit that came after.
C28_Witness ==
  /\ ~disposed
  /\ status = "errored"
  /\ emitted = <<"pi/error">>
  /\ \E r, d \in ReqSlots :
       /\ reqs[r].pc = "closed"
       /\ reqs[d].pc = "streaming"
       /\ reqs[d].listener

\* ---------------------------------------------------------------- C31
\* The changes of status of a supervisor that is not disposed.
StatusEdges ==
  {<<"stopped", "starting">>, <<"starting", "running">>, <<"running", "errored">>,
   <<"errored", "starting">>}

\* C31: while the supervisor is not disposed, status changes only from stopped
\* to starting, from starting to running, from running to errored and from
\* errored to starting; never from stopped or errored to running, nor from
\* starting to errored.
C31_StatusEdges ==
  [][(~disposed /\ ~disposed' /\ status' # status) => <<status, status'>> \in StatusEdges]_vars

\* A second start is under way after the first child ran and exited: each of
\* the four changes has happened.
C31_Witness ==
  /\ ~disposed
  /\ status = "starting"
  /\ restartCount >= 1
  /\ spawnCount >= 2
  /\ process = 0

\* ---------------------------------------------------------------- C32
\* C32: once dispose() has been called, status is stopped and no process
\* handle is held, in every later state, whatever events of its children
\* arrive afterwards.
C32_StoppedAfterDispose == disposed => (status = "stopped" /\ process = 0)

\* ---------------------------------------------------------------- C33
\* C33: after dispose(), every child the supervisor spawned has exited or has
\* been sent a termination signal, the child whose spawn was in flight when
\* dispose() ran included.
C33_NoChildLeftRunning ==
  disposed => \A p \in DOMAIN procs : procs[p].st = "alive" => procs[p].term

\* ---------------------------------------------------------------- C34
\* A spawn() whose child has reported neither `spawn` nor `error`.
SpawnInFlight == \E p \in DOMAIN procs : procs[p].st = "spawning"

\* C34: status is starting only while a spawn is in flight: whenever no spawn
\* is in flight and no handle is held, status is stopped or errored, also
\* after a spawn has failed.
C34_StartingOnlyInFlight ==
  (~SpawnInFlight /\ process = 0) => status \in {"stopped", "errored"}

\* ---------------------------------------------------------------- C35
\* C35: after an exit of a supervisor that is not disposed, no child is
\* spawned before the backoff delay has elapsed: spawn() is not called while
\* the restart timer set by the exit is pending, except by the timer's own
\* callback, also when call() or ensureStarted() is invoked in the meantime.
C35_NoSpawnBeforeBackoff ==
  [][spawnCount' > spawnCount => (restartTimer = 0 \/ restartTimer' = 0)]_vars

\* ---------------------------------------------------------------- C36
\* C36: when the write of the store file fails in tryPair(), the guard is as
\* it was before the call: the pairing code is still pending and the hash of
\* the token that was generated is not in the set.
C36_FailedWriteLeavesGuard ==
  [][\A o \in OpSlots :
       (ops[o].pc = "persist" /\ ops'[o].pc = "idle" /\ last'.res = "error") =>
         /\ pairingCode' # <<>>
         /\ HashToken(ops[o].rtoken) \notin tokenHashes']_vars

\* ---------------------------------------------------------------- C37
\* C37: an identity that has been locked out stays locked until 300 s have
\* passed since it was locked, whatever failed attempts other identities
\* make in between, a flood of more identities than the map may track included.
C37_LockedStaysLocked ==
  [][(/\ LockedNow(Victim)
      /\ now' - RecordOf(Victim).lockedAtMs < LOCKOUT_SECONDS * 1000) =>
        /\ \E i \in 1..Len(attempts') : attempts'[i].key = Victim
        /\ GetLockoutRemainingSeconds(attempts', Victim, now') > 0]_vars

\* ---------------------------------------------------------------- C38
\* Stream r has left the bridge: no listener, no interval, no registry entry.
Removed(r) ==
  /\ ~reqs[r].listener
  /\ ~reqs[r].keepAlive /\ ~reqs[r].statusTicker
  /\ ~reqs[r].registered /\ ~reqs[r].unsubscribe /\ ~reqs[r].close

\* C38: every stream whose connection has closed is removed from the bridge
\* in the end and stays removed: its listener is unsubscribed, its intervals
\* are cleared and it is in no registry, also when the connection closed or
\* the supervisor failed to start during the set-up of the stream, or the
\* bridge was disposed during it.
C38_ClosedEventuallyRemoved ==
  \A r \in ReqSlots : reqs[r].gone ~> [](Removed(r))

\* ---------------------------------------------------------------- C39
\* C39: on the websocket chat bridge with pairing required, a message reaches
\* the supervisor's call() only after the connection's token has been
\* authenticated: a connection is marked authenticated only with a token the
\* guard knows, every call() is made for a message of an authenticated
\* connection, and a message that arrives while the check is pending or
\* after it failed changes nothing of the supervisor.
C39_ForwardedAfterAuth ==
  /\ [](\A w \in ReqSlots :
         /\ (requirePairing /\ socks[w].authenticated) => TokenKnown(socks[w].token)
         /\ socks[w].forwarded => socks[w].authenticated
         /\ socks[w].refused => ~socks[w].authenticated /\ ~socks[w].forwarded)
  /\ [][\A c \in Slots :
         (callers[c].pc = "idle" /\ callers'[c].pc # "idle") =>
           \E w \in ReqSlots :
             /\ socks[w].authenticated
             /\ socks'[w].forwarded
             /\ requirePairing => TokenKnown(socks[w].token)]_vars
  /\ [][\A w \in ReqSlots :
         (/\ requirePairing
          /\ socks[w].pc \in {"authStatus", "authToken", "refused"}
          /\ socks'[w].pc = socks[w].pc
          /\ socks'[w] # socks[w]) =>
            /\ socks'[w].bounced
            /\ UNCHANGED rpcVars]_vars

\* With pairing required, a connection had a message answered "Authentication
\* pending" and, once authenticated, one passed to call(), while a connection
\* with an unknown token was refused and a message of it was answered likewise.
C39_Witness ==
  /\ requirePairing
  /\ \E w, v \in ReqSlots :
       /\ socks[w].bounced /\ socks[w].forwarded
       /\ socks[v].refused /\ socks[v].bounced /\ socks[v].token.enc # "blank"
  /\ \E c \in Slots : callers[c].pc # "idle"

====
